---------------------------- MODULE Spec2Model ----------------------------
(***************************************************************************)
(* Model of the MIUR / OpenAlex name-matching pipeline of unisurf:         *)
(*   - name normalizer, name parsers and pairwise scorer                   *)
(*     (ETL/Trasformazione/matching_functionsV4.py),                       *)
(*   - candidate generators and resolvers (matching_functionsV4.py,        *)
(*     old_versions/matching_functions.py, matching_atenei_MIUR_OA.py,     *)
(*     mathcinguniv2.py),                                                  *)
(*   - the batch driver (ETL/Trasformazione/matcher_optimized.py).         *)
(*                                                                         *)
(* A Python str is a sequence of characters; a character is a one-element  *)
(* TLA+ string, or a symbolic name for a non-ASCII code point.  A Python   *)
(* float score is an exact rational <<numerator, denominator>>.            *)
(***************************************************************************)
EXTENDS Integers, Sequences, FiniteSets, TLC

-----------------------------------------------------------------------------
(* Characters                                                              *)

LowerLetters ==
    <<"a","b","c","d","e","f","g","h","i","j","k","l","m",
      "n","o","p","q","r","s","t","u","v","w","x","y","z">>

UpperLetters ==
    <<"A","B","C","D","E","F","G","H","I","J","K","L","M",
      "N","O","P","Q","R","S","T","U","V","W","X","Y","Z">>

Range(s) == {s[i] : i \in 1..Len(s)}

AsciiLower == Range(LowerLetters)
AsciiUpper == Range(UpperLetters)
AsciiLetters == AsciiLower \cup AsciiUpper

\* Non-ASCII code points, by name: U+00E0 / U+00C0 and U+00E8 / U+00C8
\* (precomposed a, A, e, E with grave), U+0300 (combining grave, category
\* Mn), the dash variants U+2010, U+2011, U+2013, U+2014 and the acute
\* accent U+00B4.
AccentedLower == {"a_grave", "e_grave"}
AccentedUpper == {"A_GRAVE", "E_GRAVE"}
CombiningMarks == {"COMB_GRAVE"}
DashVariants == {"U2010", "U2011", "U2013", "U2014"}
ApostropheVariants == {"BACKTICK", "U00B4"}
Whitespace == {" ", "TAB"}

IndexOf(s, c) == CHOOSE i \in 1..Len(s) : s[i] = c

\* str.upper() / str.lower() on one character
UpperChar(c) ==
    IF c \in AsciiLower THEN UpperLetters[IndexOf(LowerLetters, c)]
    ELSE IF c = "e_grave" THEN "E_GRAVE"
    ELSE IF c = "a_grave" THEN "A_GRAVE"
    ELSE c

LowerChar(c) ==
    IF c \in AsciiUpper THEN LowerLetters[IndexOf(UpperLetters, c)]
    ELSE IF c = "E_GRAVE" THEN "e_grave"
    ELSE IF c = "A_GRAVE" THEN "a_grave"
    ELSE c

IsLowerCased(c) == c \in AsciiLower \cup AccentedLower
IsUpperCased(c) == c \in AsciiUpper \cup AccentedUpper
IsAlphaChar(c) == IsLowerCased(c) \/ IsUpperCased(c)

-----------------------------------------------------------------------------
(* Python str methods on character sequences                               *)

upper(s) == [i \in 1..Len(s) |-> UpperChar(s[i])]
lower(s) == [i \in 1..Len(s) |-> LowerChar(s[i])]

\* str.isupper(): at least one cased character and no lowercase one
isupper(s) ==
    /\ \E i \in 1..Len(s) : IsUpperCased(s[i])
    /\ \A i \in 1..Len(s) : ~IsLowerCased(s[i])

\* str.isalpha(): non-empty and every character alphabetic
isalpha(s) == Len(s) > 0 /\ \A i \in 1..Len(s) : IsAlphaChar(s[i])

RECURSIVE lstrip(_)
lstrip(s) ==
    IF s # <<>> /\ Head(s) \in Whitespace THEN lstrip(Tail(s)) ELSE s

RECURSIVE rstrip(_)
rstrip(s) ==
    IF s # <<>> /\ s[Len(s)] \in Whitespace
    THEN rstrip(SubSeq(s, 1, Len(s) - 1)) ELSE s

strip(s) == rstrip(lstrip(s))

\* str.split(): the maximal runs of non-whitespace characters
RECURSIVE SplitFrom(_, _, _)
SplitFrom(s, cur, acc) ==
    IF s = <<>> THEN (IF cur = <<>> THEN acc ELSE Append(acc, cur))
    ELSE IF Head(s) \in Whitespace
         THEN SplitFrom(Tail(s), <<>>,
                        IF cur = <<>> THEN acc ELSE Append(acc, cur))
         ELSE SplitFrom(Tail(s), Append(cur, Head(s)), acc)

split(s) == SplitFrom(s, <<>>, <<>>)

\* " ".join(tokens)
RECURSIVE join(_)
join(tokens) ==
    IF tokens = <<>> THEN <<>>
    ELSE IF Len(tokens) = 1 THEN tokens[1]
    ELSE tokens[1] \o <<" ">> \o join(Tail(tokens))

\* s1.startswith(s2)
startswith(s1, s2) ==
    Len(s2) <= Len(s1) /\ SubSeq(s1, 1, Len(s2)) = s2

-----------------------------------------------------------------------------
(* Exact rationals standing for Python floats                              *)

RECURSIVE GCD(_, _)
GCD(a, b) == IF b = 0 THEN a ELSE GCD(b, a % b)

Abs(x) == IF x < 0 THEN -x ELSE x

Rat(n, d) ==
    LET g == GCD(Abs(n), d) IN
    IF n = 0 THEN <<0, 1>> ELSE <<n \div g, d \div g>>

RInt(n) == <<n, 1>>
RAdd(a, b) ==
    LET g == GCD(a[2], b[2])
        l == (a[2] \div g) * b[2]
    IN Rat(a[1] * (l \div a[2]) + b[1] * (l \div b[2]), l)
RMul(a, b) ==
    LET g1 == GCD(Abs(a[1]), b[2])
        g2 == GCD(Abs(b[1]), a[2])
        h1 == IF g1 = 0 THEN 1 ELSE g1
        h2 == IF g2 = 0 THEN 1 ELSE g2
    IN Rat((a[1] \div h1) * (b[1] \div h2), (a[2] \div h2) * (b[2] \div h1))
RLess(a, b) == a[1] * b[2] < b[1] * a[2]
RLeq(a, b) == a[1] * b[2] <= b[1] * a[2]
RMin(a, b) == IF RLeq(a, b) THEN a ELSE b
RMax(a, b) == IF RLeq(a, b) THEN b ELSE a

RHundred == RInt(100)
Scale100(a) == RMul(a, RHundred)

SetMin(S) == CHOOSE x \in S : \A y \in S : x <= y
SetMax(S) == CHOOSE x \in S : \A y \in S : y <= x
Min2(a, b) == IF a <= b THEN a ELSE b
Max2(a, b) == IF a >= b THEN a ELSE b

-----------------------------------------------------------------------------
(* rapidfuzz.distance.JaroWinkler.similarity, as the scorer calls it       *)
(* (default prefix weight 0.1, no cutoff); the result is in [0, 1].        *)

RECURSIVE JaroFlags(_, _, _, _, _, _)
JaroFlags(s1, s2, bound, i, f1, f2) ==
    IF i > Len(s1) THEN <<f1, f2>>
    ELSE LET low == Max2(1, i - bound)
             hi == Min2(i + bound, Len(s2))
             cand == {j \in low..hi : j \notin f2 /\ s2[j] = s1[i]}
         IN IF cand = {}
            THEN JaroFlags(s1, s2, bound, i + 1, f1, f2)
            ELSE JaroFlags(s1, s2, bound, i + 1,
                           f1 \cup {i}, f2 \cup {SetMin(cand)})

RECURSIVE PickFlagged(_, _, _)
PickFlagged(s, f, i) ==
    IF i > Len(s) THEN <<>>
    ELSE (IF i \in f THEN <<s[i]>> ELSE <<>>) \o PickFlagged(s, f, i + 1)

JaroSimilarity(s1, s2) ==
    IF s1 = <<>> /\ s2 = <<>> THEN RInt(1)
    ELSE IF s1 = <<>> \/ s2 = <<>> THEN RInt(0)
    ELSE IF Len(s1) = 1 /\ Len(s2) = 1
         THEN (IF s1[1] = s2[1] THEN RInt(1) ELSE RInt(0))
    ELSE LET bound == Max2(Len(s1), Len(s2)) \div 2 - 1
             fl == JaroFlags(s1, s2, bound, 1, {}, {})
             m == Cardinality(fl[1])
             a == PickFlagged(s1, fl[1], 1)
             b == PickFlagged(s2, fl[2], 1)
             t == Cardinality({k \in 1..m : a[k] # b[k]}) \div 2
         IN IF m = 0 THEN RInt(0)
            ELSE Rat(m * m * Len(s2) + m * m * Len(s1)
                       + (m - t) * Len(s1) * Len(s2),
                     3 * Len(s1) * Len(s2) * m)

RECURSIVE CommonPrefixLen(_, _, _)
CommonPrefixLen(s1, s2, max) ==
    IF max = 0 \/ s1 = <<>> \/ s2 = <<>> \/ Head(s1) # Head(s2) THEN 0
    ELSE 1 + CommonPrefixLen(Tail(s1), Tail(s2), max - 1)

JaroWinklerSimilarity(s1, s2) ==
    LET sim == JaroSimilarity(s1, s2)
        prefix == CommonPrefixLen(s1, s2, 4)
    IN IF RLess(<<7, 10>>, sim)
       THEN RMin(RInt(1),
                 RAdd(sim, RMul(<<prefix, 10>>,
                                RAdd(RInt(1), <<-sim[1], sim[2]>>))))
       ELSE sim

-----------------------------------------------------------------------------
(* Name normalizer (matching_functionsV4.normalize_name)                   *)

\* unicodedata.normalize('NFD', .) on one character
NFDChar(c) ==
    IF c = "e_grave" THEN <<"e", "COMB_GRAVE">>
    ELSE IF c = "E_GRAVE" THEN <<"E", "COMB_GRAVE">>
    ELSE IF c = "a_grave" THEN <<"a", "COMB_GRAVE">>
    ELSE IF c = "A_GRAVE" THEN <<"A", "COMB_GRAVE">>
    ELSE <<c>>

RECURSIVE FlatMap(_, _)
FlatMap(Op(_), s) ==
    IF s = <<>> THEN <<>> ELSE Op(Head(s)) \o FlatMap(Op, Tail(s))

\* re.sub(r'\s+', ' ', s): every whitespace run becomes one space
RECURSIVE CollapseWhitespace(_)
CollapseWhitespace(s) ==
    IF s = <<>> THEN <<>>
    ELSE IF Head(s) \in Whitespace
         THEN <<" ">> \o CollapseWhitespace(lstrip(s))
         ELSE <<Head(s)>> \o CollapseWhitespace(Tail(s))

NormalizeChar(c) ==
    IF c \in DashVariants THEN "-"
    ELSE IF c \in ApostropheVariants THEN "'"
    ELSE IF c \in {",", ";"} THEN " "
    ELSE c

\* A normalizer that replaces commas only after collapsing the whitespace
normalize_name_CommasLast(name) ==
    IF name = <<>> THEN <<>>
    ELSE LET collapsed ==
                 CollapseWhitespace(strip(SelectSeq(
                     FlatMap(NFDChar, name),
                     LAMBDA c : c \notin CombiningMarks)))
         IN [i \in 1..Len(collapsed) |-> NormalizeChar(collapsed[i])]

normalize_name(name) ==
    IF name = <<>> THEN <<>>
    ELSE LET nfd == FlatMap(NFDChar, name)
             noMarks == SelectSeq(nfd, LAMBDA c : c \notin CombiningMarks)
             mapped == [i \in 1..Len(noMarks) |-> NormalizeChar(noMarks[i])]
         IN CollapseWhitespace(strip(mapped))

-----------------------------------------------------------------------------
(* Name parsers (matching_functionsV4.py)                                  *)

\* An ASCII literal as a character sequence
Str(lit) == [i \in 1..Len(lit) |-> SubSeq(lit, i, i)]

\* What an expression that raises IndexError evaluates to: as a string,
\* and as the score of the scorer call the exception propagates out of
RaisedStr == <<"!IndexError">>
RaisedScore == <<0, 0>>
IsRaisedScore(v) == v[2] = 0

is_initial(name) ==
    LET n == strip(name) IN
    /\ n # <<>>
    /\ n[1] \in AsciiLetters
    /\ \A i \in 1..Len(n) : n[i] \in AsciiLetters \cup {"."}
    /\ \A i \in 1..(Len(n) - 1) : ~(n[i] = "." /\ n[i + 1] = ".")
    /\ Cardinality({i \in 1..Len(n) : n[i] # "."}) <= 3

extract_initial(name) ==
    IF name = <<>> THEN <<>>
    ELSE LET letters == SelectSeq(name, LAMBDA c : c \in AsciiLetters)
         IN IF letters = <<>> THEN RaisedStr ELSE <<letters[1]>>

\* The parser of old_versions/matching_functions.py, which also asks
\* token.isalpha() of a family-name token
parse_professor_name_AlphaOnly(prof_tokens, original_name) ==
    LET original_tokens ==
            IF original_name # <<>> THEN split(original_name) ELSE prof_tokens
        cognome_tokens ==
            SelectSeq(original_tokens, LAMBDA t : isupper(t) /\ isalpha(t))
        nome_tokens ==
            SelectSeq(original_tokens, LAMBDA t : ~(isupper(t) /\ isalpha(t)))
    IN IF Len(original_tokens) < 2 THEN <<<<>>, <<>>>>
       ELSE IF join(cognome_tokens) = <<>>
            THEN <<join(Tail(original_tokens)), original_tokens[1]>>
            ELSE <<join(nome_tokens), join(cognome_tokens)>>

parse_professor_name(prof_tokens, original_name) ==
    LET original_tokens ==
            IF original_name # <<>> THEN split(original_name) ELSE prof_tokens
        cognome_tokens == SelectSeq(original_tokens, isupper)
        nome_tokens == SelectSeq(original_tokens, LAMBDA t : ~isupper(t))
        prof_nome == join(nome_tokens)
        prof_cognome == join(cognome_tokens)
    IN IF Len(original_tokens) < 2 THEN <<<<>>, <<>>>>
       ELSE IF prof_cognome = <<>>
            THEN <<join(Tail(original_tokens)), original_tokens[1]>>
            ELSE <<prof_nome, prof_cognome>>

\* A parser without the rule for an initial in first position
parse_author_name_NoInitialRule(author_tokens) ==
    IF author_tokens = <<>>
    THEN [nome |-> <<>>, cognome |-> <<>>, is_list |-> FALSE]
    ELSE IF Len(author_tokens) = 2
    THEN [nome |-> author_tokens[1], cognome |-> author_tokens[2],
          is_list |-> FALSE]
    ELSE IF Len(author_tokens) > 6
    THEN [nome |-> <<>>, cognome |-> <<>>, is_list |-> FALSE]
    ELSE [nome |-> <<>>, cognome |-> author_tokens, is_list |-> TRUE]

\* A parser that sends names of more than six tokens to the token-set scorer
parse_author_name_ListOverSix(author_tokens) ==
    IF author_tokens = <<>>
    THEN [nome |-> <<>>, cognome |-> <<>>, is_list |-> FALSE]
    ELSE IF Len(author_tokens) = 2 /\ is_initial(author_tokens[1])
    THEN [nome |-> extract_initial(author_tokens[1]),
          cognome |-> author_tokens[2], is_list |-> FALSE]
    ELSE IF Len(author_tokens) = 2
    THEN [nome |-> author_tokens[1], cognome |-> author_tokens[2],
          is_list |-> FALSE]
    ELSE [nome |-> <<>>, cognome |-> author_tokens, is_list |-> TRUE]

\* The result is [nome, cognome, is_list]: is_list tells the token-list
\* sentinel ("", author_tokens) from a (nome, cognome) pair of strings.
parse_author_name(author_tokens) ==
    IF author_tokens = <<>>
    THEN [nome |-> <<>>, cognome |-> <<>>, is_list |-> FALSE]
    ELSE IF Len(author_tokens) = 2 /\ is_initial(author_tokens[1])
    THEN [nome |-> extract_initial(author_tokens[1]),
          cognome |-> author_tokens[2], is_list |-> FALSE]
    ELSE IF Len(author_tokens) = 2
    THEN [nome |-> author_tokens[1], cognome |-> author_tokens[2],
          is_list |-> FALSE]
    ELSE IF Len(author_tokens) > 6
    THEN [nome |-> <<>>, cognome |-> <<>>, is_list |-> FALSE]
    ELSE [nome |-> <<>>, cognome |-> author_tokens, is_list |-> TRUE]

Abbreviations ==
    [k \in {Str("giuseppe"), Str("giovanni"), Str("francesco"),
            Str("alessandro"), Str("antonio"), Str("maria")} |->
        IF k = Str("giuseppe") THEN {Str("peppe"), Str("beppe"), Str("pino")}
        ELSE IF k = Str("giovanni") THEN {Str("gianni"), Str("nino")}
        ELSE IF k = Str("francesco") THEN {Str("franco"), Str("checco")}
        ELSE IF k = Str("alessandro") THEN {Str("sandro"), Str("alex")}
        ELSE IF k = Str("antonio") THEN {Str("toni"), Str("tonino")}
        ELSE {Str("mary")}]

\* An abbreviation table that every pair of given names hits
check_common_abbreviations_AlwaysHit(full_name, abbrev_name) == TRUE

check_common_abbreviations(full_name, abbrev_name) ==
    LET full_lower == lower(full_name)
        abbrev_lower == lower(abbrev_name)
    IN IF full_lower \in DOMAIN Abbreviations
       THEN abbrev_lower \in Abbreviations[full_lower]
       ELSE FALSE

-----------------------------------------------------------------------------
(* rapidfuzz.fuzz.token_set_ratio, as the scorers call it (no processor,   *)
(* no cutoff); the result is in [0, 100].                                  *)

\* Code-point order of the characters
CodePointOrder ==
    <<"TAB", " ", "'", ",", "-", ".", ";">> \o UpperLetters \o <<"BACKTICK">>
    \o LowerLetters
    \o <<"U00B4", "A_GRAVE", "E_GRAVE", "a_grave", "e_grave", "COMB_GRAVE",
         "U2010", "U2011", "U2013", "U2014">>

Ord(c) == IndexOf(CodePointOrder, c)

RECURSIVE StrLess(_, _)
StrLess(a, b) ==
    IF b = <<>> THEN FALSE
    ELSE IF a = <<>> THEN TRUE
    ELSE IF Head(a) = Head(b) THEN StrLess(Tail(a), Tail(b))
    ELSE Ord(Head(a)) < Ord(Head(b))

\* sorted(tokens) of a set of tokens
RECURSIVE SortedTokens(_)
SortedTokens(S) ==
    IF S = {} THEN <<>>
    ELSE LET least == CHOOSE t \in S : \A u \in S \ {t} : StrLess(t, u)
         IN <<least>> \o SortedTokens(S \ {least})

\* One row of the longest-common-subsequence table from the row above:
\* L(i, j) = max(L(i-1, j), max {L(i-1, k-1) + 1 : k <= j, b[k] = a[i]})
LcsRow(ch, b, prev) ==
    [j \in 1..Len(b) |->
        LET hits == {k \in 1..j : b[k] = ch}
            best == IF hits = {} THEN 0
                    ELSE SetMax({(IF k = 1 THEN 0 ELSE prev[k - 1]) + 1 :
                                    k \in hits})
        IN Max2(prev[j], best)]

RECURSIVE LcsRows(_, _, _, _)
LcsRows(a, b, i, prev) ==
    IF i > Len(a) THEN prev
    ELSE LET row == SubSeq(LcsRow(a[i], b, prev), 1, Len(b))
         IN IF Len(row) = Len(b) THEN LcsRows(a, b, i + 1, row) ELSE row

LcsLen(a, b) ==
    IF a = <<>> \/ b = <<>> THEN 0
    ELSE LcsRows(a, b, 1, [j \in 1..Len(b) |-> 0])[Len(b)]

IndelDistance(a, b) == Len(a) + Len(b) - 2 * LcsLen(a, b)

NormDistance(dist, lensum) ==
    IF lensum = 0 THEN RInt(100) ELSE Rat(100 * (lensum - dist), lensum)

token_set_ratio(s1, s2) ==
    LET tokens_a == Range(split(s1))
        tokens_b == Range(split(s2))
        intersect == tokens_a \cap tokens_b
        diff_ab == tokens_a \ tokens_b
        diff_ba == tokens_b \ tokens_a
        diff_ab_joined == join(SortedTokens(diff_ab))
        diff_ba_joined == join(SortedTokens(diff_ba))
        ab_len == Len(diff_ab_joined)
        ba_len == Len(diff_ba_joined)
        sect_len == Len(join(SortedTokens(intersect)))
        sep == IF sect_len # 0 THEN 1 ELSE 0
        sect_ab_len == sect_len + sep + ab_len
        sect_ba_len == sect_len + sep + ba_len
        result == NormDistance(IndelDistance(diff_ab_joined, diff_ba_joined),
                               sect_ab_len + sect_ba_len)
        sect_ab_ratio == NormDistance(sep + ab_len, sect_len + sect_ab_len)
        sect_ba_ratio == NormDistance(sep + ba_len, sect_len + sect_ba_len)
    IN IF s1 = <<>> \/ s2 = <<>> THEN RInt(0)
       ELSE IF tokens_a = {} \/ tokens_b = {} THEN RInt(0)
       ELSE IF intersect # {} /\ (diff_ab = {} \/ diff_ba = {}) THEN RInt(100)
       ELSE IF sect_len = 0 THEN result
       ELSE RMax(result, RMax(sect_ab_ratio, sect_ba_ratio))

-----------------------------------------------------------------------------
(* Preprocessing and pairwise scorer (matching_functionsV4.py)             *)

\* The derived fields preprocess_professor_data adds to one record
PreprocessProfessor(prof) ==
    LET normalized == normalize_name(prof.nome_completo) IN
    [id |-> prof.id, nome_completo |-> prof.nome_completo,
     id_oa_ateneo |-> prof.id_oa_ateneo,
     nome_completo_normalized |-> normalized,
     nome_completo_tokens |-> split(normalized),
     nome_completo_original |-> prof.nome_completo]

\* A missing cell of the CSV reaches the records as the float NaN, which
\* is truthy: "if not name" lets it through and unicodedata.normalize
\* raises TypeError
NaNCell == <<"!NaN">>

NormalizeRaises(name) == name = NaNCell

\* The list as it stands when normalize_name has raised for record k: the
\* records before it carry the derived fields
PreprocessedBefore(professors, k) ==
    [i \in 1..Len(professors) |->
        IF i < k THEN PreprocessProfessor(professors[i]) ELSE professors[i]]

\* The first record whose name makes normalize_name raise, 0 if none
FirstRaising(professors) ==
    IF \E i \in DOMAIN professors : NormalizeRaises(professors[i].nome_completo)
    THEN CHOOSE i \in DOMAIN professors :
            /\ NormalizeRaises(professors[i].nome_completo)
            /\ \A j \in 1..(i - 1) :
                  ~NormalizeRaises(professors[j].nome_completo)
    ELSE 0

preprocess_professor_data(professors) ==
    [i \in 1..Len(professors) |-> PreprocessProfessor(professors[i])]

\* The records without the fields the preprocessing added
cleanup_preprocessed_data(professors, authors_dict) ==
    [professors |->
        [i \in 1..Len(professors) |->
            [id |-> professors[i].id,
             nome_completo |-> professors[i].nome_completo,
             id_oa_ateneo |-> professors[i].id_oa_ateneo]],
     authors_dict |->
        [keys |-> authors_dict.keys,
         data |-> [a \in DOMAIN authors_dict.data |->
                      [display_name |-> authors_dict.data[a].display_name,
                       orcid |-> authors_dict.data[a].orcid]]]]

\* The derived fields preprocess_authors_data adds to one record
PreprocessAuthor(author_data) ==
    LET normalized == normalize_name(author_data.display_name) IN
    [display_name |-> author_data.display_name,
     orcid |-> author_data.orcid,
     display_name_normalized |-> normalized,
     display_name_tokens |-> split(normalized)]

\* An authors dict is [keys, data]: the keys in insertion order (the order
\* authors_dict.items() yields them) and the value stored under each key
preprocess_authors_data(authors_dict) ==
    [keys |-> authors_dict.keys,
     data |-> [a \in DOMAIN authors_dict.data |->
                  PreprocessAuthor(authors_dict.data[a])]]

calculate_first_name_score_optimized(prof_nome_in, author_first_in) ==
    LET prof_nome == strip(prof_nome_in)
        author_first == strip(author_first_in)
        jaro_score == Scale100(JaroWinklerSimilarity(upper(prof_nome),
                                                     upper(author_first)))
    IN IF is_initial(author_first)
       THEN (IF extract_initial(author_first) = RaisedStr THEN RaisedScore
             ELSE IF prof_nome # <<>>
                /\ <<UpperChar(prof_nome[1])>>
                     = upper(extract_initial(author_first))
             THEN RInt(95) ELSE RInt(10))
       ELSE IF is_initial(prof_nome)
       THEN (IF extract_initial(prof_nome) = RaisedStr THEN RaisedScore
             ELSE IF author_first # <<>>
                /\ <<UpperChar(author_first[1])>>
                     = upper(extract_initial(prof_nome))
             THEN RInt(95) ELSE RInt(10))
       ELSE IF check_common_abbreviations(prof_nome, author_first)
       THEN RMin(RInt(100), RAdd(jaro_score, RInt(10)))
       ELSE jaro_score

\* The pairs (prof_token, author_token) that earn the initial bonus
InitialBonusPairs(prof_tokens, author_tokens) ==
    {<<i, j>> \in (1..Len(prof_tokens)) \X (1..Len(author_tokens)) :
        IF is_initial(author_tokens[j])
        THEN startswith(upper(prof_tokens[i]),
                        upper(extract_initial(author_tokens[j])))
        ELSE /\ is_initial(prof_tokens[i])
             /\ startswith(upper(author_tokens[j]),
                           upper(extract_initial(prof_tokens[i])))}

calculate_token_set_score_optimized(prof_tokens, author_tokens) ==
    LET prof_tokens_clean ==
            [i \in 1..Len(SelectSeq(prof_tokens, isalpha)) |->
                upper(SelectSeq(prof_tokens, isalpha)[i])]
        author_tokens_clean ==
            [i \in 1..Len(SelectSeq(author_tokens, isalpha)) |->
                upper(SelectSeq(author_tokens, isalpha)[i])]
        token_set_score == token_set_ratio(join(prof_tokens_clean),
                                           join(author_tokens_clean))
        initial_bonus ==
            10 * Cardinality(InitialBonusPairs(prof_tokens, author_tokens))
        raises ==
            \E i \in 1..Len(prof_tokens), j \in 1..Len(author_tokens) :
                IF is_initial(author_tokens[j])
                THEN extract_initial(author_tokens[j]) = RaisedStr
                ELSE /\ is_initial(prof_tokens[i])
                     /\ extract_initial(prof_tokens[i]) = RaisedStr
    IN IF raises THEN RaisedScore
       ELSE RMin(RInt(100), RAdd(token_set_score, RInt(initial_bonus)))

\* The weighted formula granting the bonus from 95 on ("score >= 95")
WeightedScore_BonusFrom95(cognome_score, nome_score) ==
    LET weighted == RAdd(RMul(cognome_score, <<7, 10>>),
                         RMul(nome_score, <<3, 10>>))
        bonused == IF RLeq(RInt(95), cognome_score)
                      /\ RLeq(RInt(95), nome_score)
                   THEN RMin(RInt(100), RAdd(weighted, RInt(5)))
                   ELSE weighted
    IN IF RLess(cognome_score, RInt(60))
       THEN RMul(bonused, <<1, 2>>)
       ELSE bonused

\* The weighted formula without "min(100, .)" on the bonus
WeightedScore_NoClamp(cognome_score, nome_score) ==
    LET weighted == RAdd(RMul(cognome_score, <<7, 10>>),
                         RMul(nome_score, <<3, 10>>))
        bonused == IF RLess(RInt(95), cognome_score)
                      /\ RLess(RInt(95), nome_score)
                   THEN RAdd(weighted, RInt(5))
                   ELSE weighted
    IN IF RLess(cognome_score, RInt(60))
       THEN RMul(bonused, <<1, 2>>)
       ELSE bonused

\* The weighted formula with the penalty for family scores below 50
WeightedScore_PenaltyBelow50(cognome_score, nome_score) ==
    LET weighted == RAdd(RMul(cognome_score, <<7, 10>>),
                         RMul(nome_score, <<3, 10>>))
        bonused == IF RLess(RInt(95), cognome_score)
                      /\ RLess(RInt(95), nome_score)
                   THEN RMin(RInt(100), RAdd(weighted, RInt(5)))
                   ELSE weighted
    IN IF RLess(cognome_score, RInt(50))
       THEN RMul(bonused, <<1, 2>>)
       ELSE bonused

\* The weighted family / given formula with its bonus and penalty
WeightedScore(cognome_score, nome_score) ==
    LET weighted == RAdd(RMul(cognome_score, <<7, 10>>),
                         RMul(nome_score, <<3, 10>>))
        bonused == IF RLess(RInt(95), cognome_score)
                      /\ RLess(RInt(95), nome_score)
                   THEN RMin(RInt(100), RAdd(weighted, RInt(5)))
                   ELSE weighted
    IN IF RLess(cognome_score, RInt(60))
       THEN RMul(bonused, <<1, 2>>)
       ELSE bonused

\* A scorer that compares the two normalized names as whole strings only
NameScoreTrace_WholeString(prof_data, author_data) ==
    IF prof_data.nome_completo_normalized = <<>>
       \/ author_data.display_name_normalized = <<>>
    THEN [branch |-> "empty", cognome_score |-> RInt(0),
          nome_score |-> RInt(0), score |-> RInt(0)]
    ELSE [branch |-> "whole_string", cognome_score |-> RInt(0),
          nome_score |-> RInt(0),
          score |-> Scale100(JaroWinklerSimilarity(
                        prof_data.nome_completo_normalized,
                        author_data.display_name_normalized))]

\* calculate_name_score_optimized with the branch it took and the
\* intermediate scores: [branch, cognome_score, nome_score, score]
NameScoreTrace(prof_data, author_data) ==
    LET prof_clean == prof_data.nome_completo_normalized
        author_clean == author_data.display_name_normalized
        prof_tokens == prof_data.nome_completo_tokens
        author_tokens == author_data.display_name_tokens
        prof_parsed == parse_professor_name(prof_tokens,
                                            prof_data.nome_completo_original)
        author_parsed == parse_author_name(author_tokens)
        cognome_score ==
            Scale100(JaroWinklerSimilarity(upper(prof_parsed[2]),
                                           upper(author_parsed.cognome)))
        nome_score ==
            calculate_first_name_score_optimized(prof_parsed[1],
                                                 author_parsed.nome)
    IN IF prof_clean = <<>> \/ author_clean = <<>>
       THEN [branch |-> "empty", cognome_score |-> RInt(0),
             nome_score |-> RInt(0), score |-> RInt(0)]
       ELSE IF Len(prof_tokens) < 2 \/ Len(author_tokens) < 2
       THEN [branch |-> "whole_string", cognome_score |-> RInt(0),
             nome_score |-> RInt(0),
             score |-> Scale100(JaroWinklerSimilarity(prof_clean,
                                                      author_clean))]
       ELSE IF author_parsed.is_list
       THEN [branch |-> "token_set", cognome_score |-> RInt(0),
             nome_score |-> RInt(0),
             score |-> calculate_token_set_score_optimized(prof_tokens,
                                                           author_tokens)]
       ELSE [branch |-> "weighted", cognome_score |-> cognome_score,
             nome_score |-> nome_score,
             score |-> IF IsRaisedScore(nome_score) THEN RaisedScore
                       ELSE WeightedScore(cognome_score, nome_score)]

calculate_name_score_optimized(prof_data, author_data) ==
    NameScoreTrace(prof_data, author_data).score

-----------------------------------------------------------------------------
(* Candidate generation and 1-to-1 resolution of professors and authors    *)

\* One step of list.sort(reverse=True, key=score): Python's sort is stable
\* also under reverse=True, so an element goes after every element whose
\* score is at least its own
SortInsert_TiesReversed(sorted, m) ==
    LET k == Cardinality({i \in 1..Len(sorted) :
                             RLess(m.score, sorted[i].score)})
    IN SubSeq(sorted, 1, k) \o <<m>> \o SubSeq(sorted, k + 1, Len(sorted))

SortInsert(sorted, m) ==
    LET k == Cardinality({i \in 1..Len(sorted) :
                             RLeq(m.score, sorted[i].score)})
    IN SubSeq(sorted, 1, k) \o <<m>> \o SubSeq(sorted, k + 1, Len(sorted))

\* A generator that leaves the candidates in enumeration order
sort_reverse_by_score_Unsorted(matches) == matches

RECURSIVE sort_reverse_by_score(_)
sort_reverse_by_score(matches) ==
    IF matches = <<>> THEN <<>>
    ELSE SortInsert(sort_reverse_by_score(SubSeq(matches, 1,
                                                 Len(matches) - 1)),
                    matches[Len(matches)])

find_best_matches_optimized(professors, authors_dict, score_threshold) ==
    LET nA == Len(authors_dict.keys)
        scored ==
            [k \in 1..(Len(professors) * nA) |->
                LET prof == professors[((k - 1) \div nA) + 1]
                    author_id == authors_dict.keys[((k - 1) % nA) + 1]
                IN [score |-> calculate_name_score_optimized(
                                  prof, authors_dict.data[author_id]),
                    prof |-> prof,
                    author_id |-> author_id,
                    match_type |-> "display_name"]]
    IN sort_reverse_by_score(
           SelectSeq(scored, LAMBDA m : RLess(score_threshold, m.score)))

\* "if score < threshold: break"
BelowThreshold_OrEqual(score, threshold) == RLeq(score, threshold)

\* A resolver without the cutoff
BelowThreshold_Never(score, threshold) == FALSE

BelowThreshold(score, threshold) == RLess(score, threshold)

\* "if prof_id not in used_professors and author_id not in used_authors"
NotYetUsed_RegistryOnly(registry_key, candidate_key, used_registry, used_candidates) ==
    registry_key \notin used_registry

NotYetUsed(registry_key, candidate_key, used_registry, used_candidates) ==
    registry_key \notin used_registry /\ candidate_key \notin used_candidates

\* The resolver's locals; matched records, next to every emitted match,
\* the keys the resolver marked as used for it
ResolverStart ==
    [final_matches |-> <<>>, used_registry |-> {}, used_candidates |-> {},
     matched |-> <<>>]

\* A commit that does not mark the candidate as used
Commit_KeepsCandidate(st, match_result, registry_key, candidate_key) ==
    [final_matches |-> Append(st.final_matches, match_result),
     used_registry |-> st.used_registry \cup {registry_key},
     used_candidates |-> st.used_candidates,
     matched |-> Append(st.matched, <<registry_key, candidate_key>>)]

Commit(st, match_result, registry_key, candidate_key) ==
    [final_matches |-> Append(st.final_matches, match_result),
     used_registry |-> st.used_registry \cup {registry_key},
     used_candidates |-> st.used_candidates \cup {candidate_key},
     matched |-> Append(st.matched, <<registry_key, candidate_key>>)]

RECURSIVE ResolveMatchesLoop(_, _, _, _, _)
ResolveMatchesLoop(all_matches, authors_dict, threshold_resolve, i, st) ==
    IF i > Len(all_matches) THEN st
    ELSE LET m == all_matches[i]
             author_data == authors_dict.data[m.author_id]
             match_result ==
                 [score |-> m.score,
                  nome_completo_rubrica |-> m.prof.nome_completo,
                  display_name |-> author_data.display_name,
                  author_id |-> m.author_id,
                  orcid |-> author_data.orcid]
         IN IF BelowThreshold(m.score, threshold_resolve) THEN st
            ELSE IF NotYetUsed(m.prof.id, m.author_id,
                               st.used_registry, st.used_candidates)
            THEN ResolveMatchesLoop(all_matches, authors_dict,
                                    threshold_resolve, i + 1,
                                    Commit(st, match_result, m.prof.id,
                                           m.author_id))
            ELSE ResolveMatchesLoop(all_matches, authors_dict,
                                    threshold_resolve, i + 1, st)

resolve_matches(all_matches, authors_dict, threshold_resolve) ==
    ResolveMatchesLoop(all_matches, authors_dict, threshold_resolve, 1,
                       ResolverStart).final_matches

-----------------------------------------------------------------------------
(* Institution matching (old_versions/matching_atenei_MIUR_OA.py and       *)
(* old_versions/mathcinguniv2.py)                                          *)

NormalizeInstitutionChar(c) ==
    IF c \in DashVariants THEN "-"
    ELSE IF c \in ApostropheVariants THEN "'"
    ELSE c

normalize_institution_name(name) ==
    IF name = <<>> THEN <<>>
    ELSE CollapseWhitespace(
             strip([i \in 1..Len(name) |-> NormalizeInstitutionChar(name[i])]))

stopwords ==
    {Str("universit") \o <<"a_grave">>, Str("degli"), Str("studi"),
     Str("di"), Str("della"), Str("del"), Str("dello"), Str("delle"),
     Str("university"), Str("of"), Str("studies")}

remove_stopwords_from_institution(name) ==
    IF name = <<>> THEN <<>>
    ELSE join(SelectSeq(split(normalize_institution_name(name)),
                        LAMBDA token : lower(token) \notin stopwords))

\* max(jaro_score, token_score) of two upper-cased cleaned names
InstitutionSimilarity(miur_upper, oa_upper) ==
    RMax(Scale100(JaroWinklerSimilarity(miur_upper, oa_upper)),
         token_set_ratio(miur_upper, oa_upper))

\* matching_atenei_MIUR_OA.calculate_institution_score: takes raw names
calculate_institution_score(miur_name, oa_name) ==
    IF miur_name = <<>> \/ oa_name = <<>> THEN RInt(0)
    ELSE InstitutionSimilarity(
             upper(remove_stopwords_from_institution(miur_name)),
             upper(remove_stopwords_from_institution(oa_name)))

\* mathcinguniv2.calculate_institution_score: takes cleaned names
calculate_institution_score_v2(miur_clean, oa_clean) ==
    IF miur_clean = <<>> \/ oa_clean = <<>> THEN RInt(0)
    ELSE IF Len(strip(miur_clean)) < 2 \/ Len(strip(oa_clean)) < 2
    THEN RInt(0)
    ELSE InstitutionSimilarity(upper(miur_clean), upper(oa_clean))

\* "[m for m in all_matches if not (same NomeOperativo and same id)]"
RemovePair(all_matches, miur_name, oa_id) ==
    SelectSeq(all_matches,
              LAMBDA m : ~(m.miur_row.NomeOperativo = miur_name
                           /\ m.oa_row.id = oa_id))

\* The loop over one OpenAlex row's alternatives; score is the display-name
\* score, which the loop compares against and never updates
RECURSIVE ScoreAlternatives(_, _, _, _, _)
ScoreAlternatives(all_matches, miur_row, oa_row, score, k) ==
    IF k > Len(oa_row.display_name_alternatives) THEN all_matches
    ELSE LET alt_name == oa_row.display_name_alternatives[k]
             alt_score == calculate_institution_score(miur_row.NomeOperativo,
                                                      alt_name)
         IN IF alt_name # <<>> /\ RLess(score, alt_score)
            THEN ScoreAlternatives(
                     Append(RemovePair(all_matches, miur_row.NomeOperativo,
                                       oa_row.id),
                            [score |-> alt_score, miur_row |-> miur_row,
                             oa_row |-> oa_row,
                             match_type |-> "alternative"]),
                     miur_row, oa_row, score, k + 1)
            ELSE ScoreAlternatives(all_matches, miur_row, oa_row, score,
                                   k + 1)

\* The body of the inner loop for one (MIUR row, OpenAlex row) pair
ScoreInstitutionPair(all_matches, miur_row, oa_row) ==
    LET score == calculate_institution_score(miur_row.NomeOperativo,
                                             oa_row.display_name)
        with_display ==
            IF RLess(RInt(0), score)
            THEN Append(all_matches,
                        [score |-> score, miur_row |-> miur_row,
                         oa_row |-> oa_row, match_type |-> "display_name"])
            ELSE all_matches
    IN ScoreAlternatives(with_display, miur_row, oa_row, score, 1)

RECURSIVE FindInstitutionLoop(_, _, _, _)
FindInstitutionLoop(all_matches, miur_data, oa_data, k) ==
    IF k > Len(miur_data) * Len(oa_data) THEN all_matches
    ELSE FindInstitutionLoop(
             ScoreInstitutionPair(all_matches,
                                  miur_data[((k - 1) \div Len(oa_data)) + 1],
                                  oa_data[((k - 1) % Len(oa_data)) + 1]),
             miur_data, oa_data, k + 1)

\* A generator that leaves the candidates in enumeration order
find_best_institution_matches_Unsorted(miur_data, oa_data) ==
    FindInstitutionLoop(<<>>, miur_data, oa_data, 1)

find_best_institution_matches(miur_data, oa_data) ==
    sort_reverse_by_score(FindInstitutionLoop(<<>>, miur_data, oa_data, 1))

RECURSIVE ResolveInstitutionLoop(_, _, _, _)
ResolveInstitutionLoop(all_matches, threshold, i, st) ==
    IF i > Len(all_matches) THEN st
    ELSE LET m == all_matches[i]
             miur_name == m.miur_row.NomeOperativo
             oa_id == m.oa_row.id
             match_result ==
                 [score |-> m.score,
                  nome_operativo_miur |-> miur_name,
                  nome_esteso_miur |-> m.miur_row.NomeEsteso,
                  display_name_oa |-> m.oa_row.display_name,
                  id_openalex |-> oa_id,
                  match_type |-> m.match_type]
         IN IF BelowThreshold(m.score, threshold) THEN st
            ELSE IF NotYetUsed(miur_name, oa_id,
                               st.used_registry, st.used_candidates)
            THEN ResolveInstitutionLoop(all_matches, threshold, i + 1,
                                        Commit(st, match_result, miur_name,
                                               oa_id))
            ELSE ResolveInstitutionLoop(all_matches, threshold, i + 1, st)

resolve_institution_matches(all_matches, threshold) ==
    ResolveInstitutionLoop(all_matches, threshold, 1,
                           ResolverStart).final_matches

\* mathcinguniv2.prepare_institution_stacks
prepare_miur_stack(miur_data) ==
    [i \in 1..Len(miur_data) |->
        [NomeOperativo |-> miur_data[i].NomeOperativo,
         NomeEsteso |-> miur_data[i].NomeEsteso,
         nome_pulito |->
             remove_stopwords_from_institution(miur_data[i].NomeOperativo)]]

prepare_oa_stack(oa_data) ==
    [i \in 1..Len(oa_data) |->
        [id |-> oa_data[i].id,
         display_name |-> oa_data[i].display_name,
         display_name_pulito |->
             remove_stopwords_from_institution(oa_data[i].display_name),
         display_name_alternatives |-> oa_data[i].display_name_alternatives,
         alternatives_pulite |->
             [k \in 1..Len(oa_data[i].display_name_alternatives) |->
                 remove_stopwords_from_institution(
                     oa_data[i].display_name_alternatives[k])]]]

\* The greedy matcher's per-university locals; best_match_idx 0 is None
NoBest ==
    [best_score |-> RInt(0), best_match_idx |-> 0,
     best_match_type |-> "None", best_oa_name |-> <<>>]

\* "if score > best_score": the candidate replaces the best one seen so far
GreedyBetter(best, score, oa_idx, match_type, oa_name) ==
    IF RLess(best.best_score, score)
    THEN [best_score |-> score, best_match_idx |-> oa_idx,
          best_match_type |-> match_type, best_oa_name |-> oa_name]
    ELSE best

RECURSIVE GreedyAlternatives(_, _, _, _, _)
GreedyAlternatives(miur_clean, oa_row, oa_idx, alt_idx, best) ==
    IF alt_idx > Len(oa_row.alternatives_pulite) THEN best
    ELSE GreedyAlternatives(
             miur_clean, oa_row, oa_idx, alt_idx + 1,
             IF oa_row.alternatives_pulite[alt_idx] # <<>>
             THEN GreedyBetter(
                      best,
                      calculate_institution_score_v2(
                          miur_clean, oa_row.alternatives_pulite[alt_idx]),
                      oa_idx, "alternative",
                      oa_row.display_name_alternatives[alt_idx])
             ELSE best)

\* A scan that scores the alternatives of every row
GreedyTryAlternatives_Always(miur_clean, oa_row, oa_idx, threshold, best) ==
    GreedyAlternatives(miur_clean, oa_row, oa_idx, 1, best)

\* "if best_score < threshold": the alternatives are tried only then
GreedyTryAlternatives(miur_clean, oa_row, oa_idx, threshold, best) ==
    IF RLess(best.best_score, threshold)
    THEN GreedyAlternatives(miur_clean, oa_row, oa_idx, 1, best)
    ELSE best

\* The inner loop: the best still-available OpenAlex row for one university
RECURSIVE GreedyScan(_, _, _, _, _, _)
GreedyScan(miur_clean, oa_stack, used_openalex, threshold, oa_idx, best) ==
    IF oa_idx > Len(oa_stack) THEN best
    ELSE IF oa_idx \in used_openalex
    THEN GreedyScan(miur_clean, oa_stack, used_openalex, threshold,
                    oa_idx + 1, best)
    ELSE GreedyScan(
             miur_clean, oa_stack, used_openalex, threshold, oa_idx + 1,
             GreedyTryAlternatives(
                 miur_clean, oa_stack[oa_idx], oa_idx, threshold,
                 GreedyBetter(
                     best,
                     calculate_institution_score_v2(
                         miur_clean, oa_stack[oa_idx].display_name_pulito),
                     oa_idx, "display_name",
                     oa_stack[oa_idx].display_name)))

\* "if best_match_idx is not None and best_score >= threshold"
GreedyAccepts(best, threshold) ==
    best.best_match_idx # 0 /\ RLeq(threshold, best.best_score)

GreedyStart == [final_matches |-> <<>>, used_openalex |-> {}, matched |-> <<>>]

GreedyMatchResult(miur_row, oa_stack, best) ==
    [score |-> best.best_score,
     nome_operativo_miur |-> miur_row.NomeOperativo,
     nome_esteso_miur |-> miur_row.NomeEsteso,
     display_name_oa |-> best.best_oa_name,
     id_openalex |-> oa_stack[best.best_match_idx].id,
     match_type |-> best.best_match_type]

\* The accepted match is recorded and its OpenAlex row is marked as used
GreedyCommit(miur_row, oa_stack, threshold, st, best) ==
    IF GreedyAccepts(best, threshold)
    THEN [final_matches |->
              Append(st.final_matches,
                     GreedyMatchResult(miur_row, oa_stack, best)),
          used_openalex |-> st.used_openalex \cup {best.best_match_idx},
          matched |->
              Append(st.matched,
                     <<miur_row.NomeOperativo,
                       oa_stack[best.best_match_idx].id>>)]
    ELSE st

RECURSIVE GreedyLoop(_, _, _, _, _)
GreedyLoop(miur_stack, oa_stack, threshold, miur_idx, st) ==
    IF miur_idx > Len(miur_stack) THEN st
    ELSE GreedyLoop(
             miur_stack, oa_stack, threshold, miur_idx + 1,
             GreedyCommit(
                 miur_stack[miur_idx], oa_stack, threshold, st,
                 GreedyScan(miur_stack[miur_idx].nome_pulito, oa_stack,
                            st.used_openalex, threshold, 1, NoBest)))

greedy_institution_matching(miur_stack, oa_stack, threshold) ==
    GreedyLoop(miur_stack, oa_stack, threshold, 1, GreedyStart).final_matches

-----------------------------------------------------------------------------
(* State                                                                   *)

VARIABLES
    \* scorer run: one registry name scored against one candidate name
    s_pc,            \* "idle" | "input" | "preprocessed" | "scored"
    s_prof,          \* the professor record (a dict of the professor list)
    s_author,        \* the author record (a value of the authors dict)
    s_trace,         \* the scorer's result, once scored
    \* matching run: candidate generation and resolution over one group
    m_pc,            \* the step of the pipeline the run has completed
    professor_stack, \* list of professor dicts
    oa_authors,      \* authors dict {author_id: author_data}
    miur_data,       \* MIUR rows (after preparation: miur_stack)
    oa_data,         \* OpenAlex institution rows (after preparation: oa_stack)
    threshold,       \* the acceptance threshold passed to the resolver
    all_matches,     \* the sorted candidate list
    final_matches,   \* the resolver's result
    matched,         \* per emitted match, the keys the resolver marked used
    \* batch driver (matcher_optimized.main_professor_matcher)
    b_pc,            \* position of the driver
    rubrica,         \* rows of RUBRICA_CSV
    mongo,           \* documents of the authors collection
    atenei_id,       \* the list get_university_list returned
    ateneo_idx,      \* position of the loop in the list it iterates
    csv_rows,        \* rows written to OUTPUT_FILE
    csv_pairs,       \* per written row, the professor id and author id
    cycles,          \* the institution ids the loop body has run for
    total_oa_authors,
    total_miur_profs,
    total_matches,
    processed_atenei,
    b_errors,        \* the institutions the except clause logged an error for
    csv_disk,        \* lines of OUTPUT_FILE (header included) on disk
    csv_sets,        \* per institution that reached the save step: the
                     \* number of its matches and of its rows written
    \* name functions applied to one input (normalizer and parsers)
    n_pc,            \* "idle" | "input" | "applied" | "reapplied"
    n_fn,            \* the function under application
    n_input,         \* its argument
    n_result,        \* its result
    n_again,         \* the result of applying it to its own result
    \* paginated downloaders (Ingestion/API)
    d_pc,            \* position of the downloader
    d_fn,            \* which downloader runs
    df,              \* the institutions of the input file, in file order
    d_idx,           \* position of the loop over df
    api_pages,       \* per institution, the pages the API serves
    faults,          \* number of failed requests so far
    d_cursor,        \* the page the next request asks for (1 for "*")
    pagina,          \* scarica_works_OA: the request counter of the unit
    errori,          \* scarica_works_OA: the error strings of the unit
    page_failures,   \* network failures of the requests for the page
                     \* d_cursor stands at
    tot_scritti,     \* records written for the unit
    total_count,     \* meta.count of the unit's first page, -1 for None
    test,            \* Estrazioni_OA_test.scarica_works_OA: page counter
    d_last,          \* what the last request of the unit ended in
    out_f,           \* the records written to the output file
    universities,    \* extraction_metadata["universities"]
    d_errors,        \* extraction_metadata["errors"]

    \* the weighted combination of a family-name and a given-name score
    w_pc,            \* "idle" | "input" | "scored"
    w_cognome_score, \* cognome_score, a rational
    w_nome_score,    \* nome_score
    w_final_score,   \* final_score

    \* course scrapers (Ingestion/Scraper)
    sc_pc,           \* "idle" | "ready" | "requesting" | "fetched" | "crashed"
    sc_prog,         \* which scraper runs
    sc_page,         \* the syllabus page of the call under way
    tentativo,       \* _safe_request: the loop variable
    sc_call,         \* _safe_request: what the call under way has done
    stats,           \* ScrapingStats
    insegnamenti_salvati,  \* the (titolo, corso_di_laurea) keys of the run
    json_file,       \* the course output file
    sc_last_save,    \* the last call of the save function
    sc_calls,        \* syllabus calls so far
    sc_faults        \* failed file operations so far

scorerVars == <<s_pc, s_prof, s_author, s_trace>>

matchVars == <<m_pc, professor_stack, oa_authors, miur_data, oa_data,
               threshold, all_matches, final_matches, matched>>

batchVars == <<b_pc, rubrica, mongo, atenei_id, ateneo_idx, csv_rows,
               csv_pairs, cycles, total_oa_authors, total_miur_profs,
               total_matches, processed_atenei, b_errors, csv_disk,
               csv_sets>>

namesVars == <<n_pc, n_fn, n_input, n_result, n_again>>

downloadVars == <<d_pc, d_fn, df, d_idx, api_pages, faults, d_cursor,
                  pagina,
                  errori, page_failures, tot_scritti, total_count, test,
                  d_last, out_f, universities, d_errors>>

weightVars == <<w_pc, w_cognome_score, w_nome_score, w_final_score>>

scraperVars == <<sc_pc, sc_prog, sc_page, tentativo, sc_call, stats,
                 insegnamenti_salvati, json_file, sc_last_save, sc_calls,
                 sc_faults>>

vars == <<scorerVars, matchVars, batchVars, namesVars, downloadVars,
          weightVars, scraperVars>>

NoValue == [none |-> TRUE]

EmptyDict == [keys |-> <<>>, data |-> <<>>]

ScorerIdle ==
    /\ s_pc = "idle"
    /\ s_prof = NoValue
    /\ s_author = NoValue
    /\ s_trace = NoValue

MatchIdle ==
    /\ m_pc = "idle"
    /\ professor_stack = <<>>
    /\ oa_authors = EmptyDict
    /\ miur_data = <<>>
    /\ oa_data = <<>>
    /\ threshold = NoValue
    /\ all_matches = <<>>
    /\ final_matches = <<>>
    /\ matched = <<>>

BatchIdle ==
    /\ b_pc = "idle"
    /\ rubrica = <<>>
    /\ mongo = <<>>
    /\ atenei_id = <<>>
    /\ ateneo_idx = 0
    /\ csv_rows = <<>>
    /\ csv_pairs = <<>>
    /\ cycles = <<>>
    /\ total_oa_authors = 0
    /\ total_miur_profs = 0
    /\ total_matches = 0
    /\ processed_atenei = 0
    /\ b_errors = <<>>
    /\ csv_disk = 0
    /\ csv_sets = <<>>

\* No request of the unit has been answered yet
NoRequest == [kind |-> "none", results |-> 0, next_cursor |-> 0]

NamesIdle ==
    /\ n_pc = "idle"
    /\ n_fn = "none"
    /\ n_input = NoValue
    /\ n_result = NoValue
    /\ n_again = NoValue

DownloadIdle ==
    /\ d_pc = "idle"
    /\ d_fn = "none"
    /\ df = <<>>
    /\ d_idx = 0
    /\ api_pages = <<>>
    /\ faults = 0
    /\ d_cursor = 0
    /\ pagina = 0
    /\ errori = <<>>
    /\ page_failures = 0
    /\ tot_scritti = 0
    /\ total_count = -1
    /\ test = 0
    /\ d_last = NoRequest
    /\ out_f = <<>>
    /\ universities = <<>>
    /\ d_errors = <<>>

WeightsIdle ==
    /\ w_pc = "idle"
    /\ w_cognome_score = <<0, 1>>
    /\ w_nome_score = <<0, 1>>
    /\ w_final_score = <<0, 1>>

NoPage == [titolo |-> "", corso_di_laurea |-> "", has_title |-> FALSE]

\* link_falliti is kept as the length of the list
ScrapingStats ==
    [insegnamenti_estratti |-> 0, errori_http |-> 0, errori_parsing |-> 0,
     link_falliti |-> 0]

\* What a call of _safe_request has done so far: the GETs issued, the
\* sleeps taken, what it returned, and the stats it was entered with
NoCall ==
    [gets |-> 0, sleeps |-> 0, returned |-> "nothing",
     before |-> ScrapingStats]

\* The output file: absent, a JSON array of records ("array"), text that
\* is not JSON ("not_json": empty or cut off), bytes that are not UTF-8
\* ("undecodable": cut off inside a character), or a JSON value that is no
\* array ("not_array")
AbsentFile == [kind |-> "absent", dati |-> <<>>]

NoSave ==
    [called |-> FALSE, prior |-> AbsentFile, record |-> NoPage,
     write |-> "ok", raised |-> FALSE]

ScraperIdle ==
    /\ sc_pc = "idle"
    /\ sc_prog = "none"
    /\ sc_page = NoPage
    /\ tentativo = 0
    /\ sc_call = NoCall
    /\ stats = ScrapingStats
    /\ insegnamenti_salvati = {}
    /\ json_file = AbsentFile
    /\ sc_last_save = NoSave
    /\ sc_calls = 0
    /\ sc_faults = 0

\* matcher_optimized.py lines 42 and 43
SCORE_APPEND_THRESHOLD == 40
RESOLVE_THRESHOLD == 86

-----------------------------------------------------------------------------
(* Scorer run: preprocess one professor and one author, then score them    *)

ScorerProfNames ==
    {Str("Giuseppe VERDI"), Str("Maria ROSSI"), Str("Giuseppe ROSSI"),
     Str("G. VERDI"), Str("g VERDI"), Str("Verdi Giuseppe"), Str("VERDI"),
     Str("ROSSI,Maria"), Str("Maria Grazia DE ROSSI"), Str(""),
     <<"N", "i", "c", "o", "l", "e_grave", " ", "R", "O", "S", "S", "I">>,
     Str(" Paolo  BIANCHI ")}

ScorerAuthorNames ==
    {Str("G. Verdi"), Str("Giuseppe Verdi"), Str("Giuseppe Rossi"),
     Str("M. Rossi"), Str("Beppe Verdi"), Str("Mary Rossi"),
     Str("Giuseppe Maria Verdi"), Str("G. M. Verdi"), Str("Verdi"),
     Str("Verdi, Giuseppe"), Str("Mario Bianchi"), Str(""),
     Str("A B C D E F Verdi"), Str("Anna Maria Luisa Teresa De Rossi Verdi")}

InitScorer ==
    /\ s_pc = "input"
    /\ s_prof \in {[id |-> 1, nome_completo |-> n, id_oa_ateneo |-> "I1"] :
                      n \in ScorerProfNames}
    /\ s_author \in {[display_name |-> n, orcid |-> "None"] :
                        n \in ScorerAuthorNames}
    /\ s_trace = NoValue
    /\ MatchIdle
    /\ BatchIdle
    /\ NamesIdle
    /\ DownloadIdle
    /\ WeightsIdle
    /\ ScraperIdle

ScorerPreprocess ==
    /\ s_pc = "input"
    /\ s_prof' = preprocess_professor_data(<<s_prof>>)[1]
    /\ s_author' = PreprocessAuthor(s_author)
    /\ s_pc' = "preprocessed"
    /\ UNCHANGED <<s_trace, matchVars, batchVars,
                   namesVars, downloadVars, weightVars, scraperVars>>

ScorerScore ==
    /\ s_pc = "preprocessed"
    /\ s_trace' = NameScoreTrace(s_prof, s_author)
    /\ s_pc' = "scored"
    /\ UNCHANGED <<s_prof, s_author, matchVars, batchVars,
                   namesVars, downloadVars, weightVars, scraperVars>>

NextScorer == ScorerPreprocess \/ ScorerScore

SpecScorer == InitScorer /\ [][NextScorer]_vars

\* The score with the roles exchanged: the candidate's display name as the
\* registry name, the registry name as the candidate's display name
ReverseScore ==
    calculate_name_score_optimized(
        PreprocessProfessor([id |-> s_prof.id,
                             nome_completo |-> s_author.display_name,
                             id_oa_ateneo |-> s_prof.id_oa_ateneo]),
        PreprocessAuthor([display_name |-> s_prof.nome_completo,
                          orcid |-> s_author.orcid]))

VerdiScored ==
    /\ s_pc = "scored"
    /\ s_prof.nome_completo = Str("Giuseppe VERDI")
    /\ s_author.display_name = Str("G. Verdi")

\* C19: the scorer is not commutative in its two roles. For a = 'Giuseppe
\* VERDI' and b = 'G. Verdi' the score of a as registry name against b as
\* candidate differs from the score of b as registry name against a as
\* candidate, and the two parsers split b differently: the registry parser
\* takes 'G.' for the family name, the candidate parser 'Verdi'.
C19_ScoreAsymmetry ==
    VerdiScored =>
        /\ s_trace.score # ReverseScore
        /\ parse_professor_name(s_author.display_name_tokens,
                                s_author.display_name)[2] = Str("G.")
        /\ parse_author_name(s_author.display_name_tokens).cognome
             = Str("Verdi")

\* 98.5 in one direction, 0 (family names 'G.' and 'VERDI', given names
\* 'Verdi' and 'Giuseppe') in the other
C19_Witness ==
    /\ VerdiScored
    /\ s_trace.score = Rat(197, 2)
    /\ RLess(ReverseScore, RInt(50))

InRange(score) ==
    /\ ~IsRaisedScore(score)
    /\ RLeq(RInt(0), score)
    /\ RLeq(score, RInt(100))

\* C3: whatever the two names and whichever branch the scorer takes
\* (empty input, whole-string fallback, token-set fallback, weighted
\* formula), the score it returns lies between 0 and 100.
C3_ScoreRange == s_pc = "scored" => InRange(s_trace.score)

\* The +5 bonus applies and the sum is clamped to 100
C3_Witness ==
    /\ s_pc = "scored"
    /\ s_trace.branch = "weighted"
    /\ RLess(RInt(95), s_trace.cognome_score)
    /\ RLess(RInt(95), s_trace.nome_score)
    /\ s_trace.score = RInt(100)

LongAuthorScored ==
    s_pc = "scored" /\ Len(s_author.display_name_tokens) > 6

-----------------------------------------------------------------------------
(* Matching run: one group of professors and authors through               *)
(* preprocess / find_best_matches_optimized / resolve_matches, or one set  *)
(* of MIUR and OpenAlex institutions through either institution matcher    *)

MaxProfs == 2
MaxAuthors == 2
MaxOa == 2

\* All sequences over S of length at most n
SeqsUpTo(S, n) == UNION {[1..k -> S] : k \in 0..n}

IsInjective(f) == \A i, j \in DOMAIN f : f[i] = f[j] => i = j

GroupProfNames ==
    {Str("Giuseppe VERDI"), Str("Giovanni VERDI"), Str("Maria ROSSI")}

GroupAuthorNames ==
    {Str("G. Verdi"), Str("Giuseppe Rossi"), Str("Giuseppe Verdi")}

\* Registry ids and author ids are unique; they follow no particular order
ProfId(i) == 100 - i
AuthorId(j) == <<"A", j>>
OaId(j) == <<"I", j>>

ProfessorStacks ==
    {[i \in DOMAIN names |->
         [id |-> ProfId(i), nome_completo |-> names[i],
          id_oa_ateneo |-> "I1"]] :
        names \in SeqsUpTo(GroupProfNames, MaxProfs)}

AuthorDicts ==
    {[keys |-> [j \in DOMAIN names |-> AuthorId(j)],
      data |-> [a \in {AuthorId(j) : j \in DOMAIN names} |->
                   [display_name |-> names[a[2]], orcid |-> "None"]]] :
        names \in SeqsUpTo(GroupAuthorNames, MaxAuthors)}

\* 60 and 86 are the thresholds of the documented scenarios, 75 and 86 the
\* configured ones; 98.5 and 100 are scores pairs of the group obtain
ResolveThresholds == {RInt(60), RInt(75), RInt(86), Rat(197, 2), RInt(100)}

MiurRows ==
    {[NomeOperativo |-> Str("Milano"),
      NomeEsteso |-> Str("Universit") \o <<"a_grave">>
                     \o Str(" degli Studi di MILANO")],
     [NomeOperativo |-> Str("Milano Bicocca"),
      NomeEsteso |-> Str("Universit") \o <<"a_grave">>
                     \o Str(" degli Studi di MILANO-BICOCCA")]}

StudiDiMilano ==
    Str("Universit") \o <<"a_grave">> \o Str(" degli Studi di Milano")

OaNames ==
    {[display_name |-> Str("Statale"),
      display_name_alternatives |-> <<StudiDiMilano, Str("Milan University")>>],
     [display_name |-> Str("Statale"),
      display_name_alternatives |-> <<Str("Milan University"), StudiDiMilano>>],
     [display_name |-> Str("Politecnico di Milano"),
      display_name_alternatives |-> <<Str(""), Str("Polimi")>>],
     [display_name |-> Str("University of Milano-Bicocca"),
      display_name_alternatives |-> <<>>]}

\* Every table of distinct MIUR rows: NomeOperativo identifies a university
MiurTables ==
    {t \in SeqsUpTo(MiurRows, Cardinality(MiurRows)) :
        IsInjective([i \in DOMAIN t |-> t[i].NomeOperativo])}

OaTables ==
    {[j \in DOMAIN names |->
         [id |-> OaId(j), display_name |-> names[j].display_name,
          display_name_alternatives |->
              names[j].display_name_alternatives]] :
        names \in SeqsUpTo(OaNames, MaxOa)}

InstitutionThresholds == {RInt(75), RInt(100)}

InitMatch ==
    /\ ScorerIdle
    /\ BatchIdle
    /\ NamesIdle
    /\ DownloadIdle
    /\ WeightsIdle
    /\ ScraperIdle
    /\ threshold = NoValue
    /\ all_matches = <<>>
    /\ final_matches = <<>>
    /\ matched = <<>>
    /\ \/ /\ m_pc = "professors_loaded"
          /\ professor_stack \in ProfessorStacks
          /\ oa_authors \in AuthorDicts
          /\ miur_data = <<>>
          /\ oa_data = <<>>
       \/ /\ m_pc = "institutions_loaded"
          /\ miur_data \in MiurTables
          /\ oa_data \in OaTables
          /\ professor_stack = <<>>
          /\ oa_authors = EmptyDict

\* preprocess_professor_data(professor_stack); preprocess_authors_data(..)
PreprocessGroup ==
    /\ m_pc = "professors_loaded"
    /\ professor_stack' = preprocess_professor_data(professor_stack)
    /\ oa_authors' = preprocess_authors_data(oa_authors)
    /\ m_pc' = "preprocessed"
    /\ UNCHANGED <<miur_data, oa_data, threshold, all_matches,
                   final_matches, matched, scorerVars, batchVars,
                   namesVars, downloadVars, weightVars, scraperVars>>

FindBestMatches ==
    /\ m_pc = "preprocessed"
    /\ all_matches' = find_best_matches_optimized(
                          professor_stack, oa_authors,
                          RInt(SCORE_APPEND_THRESHOLD))
    /\ m_pc' = "candidates"
    /\ UNCHANGED <<professor_stack, oa_authors, miur_data, oa_data,
                   threshold, final_matches, matched, scorerVars, batchVars,
                   namesVars, downloadVars, weightVars, scraperVars>>

ResolveMatches ==
    /\ m_pc = "candidates"
    /\ \E threshold_resolve \in ResolveThresholds :
        /\ threshold' = threshold_resolve
        /\ final_matches' = resolve_matches(all_matches, oa_authors,
                                            threshold_resolve)
        /\ matched' = ResolveMatchesLoop(all_matches, oa_authors,
                                         threshold_resolve, 1,
                                         ResolverStart).matched
    /\ m_pc' = "resolved"
    /\ UNCHANGED <<professor_stack, oa_authors, miur_data, oa_data,
                   all_matches, scorerVars, batchVars,
                   namesVars, downloadVars, weightVars, scraperVars>>

FindBestInstitutionMatches ==
    /\ m_pc = "institutions_loaded"
    /\ all_matches' = find_best_institution_matches(miur_data, oa_data)
    /\ m_pc' = "institution_candidates"
    /\ UNCHANGED <<professor_stack, oa_authors, miur_data, oa_data,
                   threshold, final_matches, matched, scorerVars, batchVars,
                   namesVars, downloadVars, weightVars, scraperVars>>

ResolveInstitutionMatches ==
    /\ m_pc = "institution_candidates"
    /\ \E th \in InstitutionThresholds :
        /\ threshold' = th
        /\ final_matches' = resolve_institution_matches(all_matches, th)
        /\ matched' = ResolveInstitutionLoop(all_matches, th, 1,
                                             ResolverStart).matched
    /\ m_pc' = "institutions_resolved"
    /\ UNCHANGED <<professor_stack, oa_authors, miur_data, oa_data,
                   all_matches, scorerVars, batchVars,
                   namesVars, downloadVars, weightVars, scraperVars>>

PrepareInstitutionStacks ==
    /\ m_pc = "institutions_loaded"
    /\ miur_data' = prepare_miur_stack(miur_data)
    /\ oa_data' = prepare_oa_stack(oa_data)
    /\ m_pc' = "stacks_prepared"
    /\ UNCHANGED <<professor_stack, oa_authors, threshold, all_matches,
                   final_matches, matched, scorerVars, batchVars,
                   namesVars, downloadVars, weightVars, scraperVars>>

GreedyInstitutionMatching ==
    /\ m_pc = "stacks_prepared"
    /\ \E th \in InstitutionThresholds :
        /\ threshold' = th
        /\ final_matches' = greedy_institution_matching(miur_data, oa_data,
                                                        th)
        /\ matched' = GreedyLoop(miur_data, oa_data, th, 1,
                                 GreedyStart).matched
    /\ m_pc' = "greedy_resolved"
    /\ UNCHANGED <<professor_stack, oa_authors, miur_data, oa_data,
                   all_matches, scorerVars, batchVars,
                   namesVars, downloadVars, weightVars, scraperVars>>

NextMatch ==
    \/ PreprocessGroup
    \/ FindBestMatches
    \/ ResolveMatches
    \/ FindBestInstitutionMatches
    \/ ResolveInstitutionMatches
    \/ PrepareInstitutionStacks
    \/ GreedyInstitutionMatching

SpecMatch == InitMatch /\ [][NextMatch]_vars

Resolved == m_pc \in {"resolved", "institutions_resolved", "greedy_resolved"}

\* C1: the matches a resolver returns (resolve_matches,
\* resolve_institution_matches, greedy_institution_matching) never hold the
\* same registry entry twice nor the same candidate twice.
C1_OneToOne ==
    Resolved =>
        /\ Len(matched) = Len(final_matches)
        /\ IsInjective([i \in DOMAIN matched |-> matched[i][1]])
        /\ IsInjective([i \in DOMAIN matched |-> matched[i][2]])
        /\ m_pc = "resolved" =>
               \A i \in DOMAIN matched :
                  /\ final_matches[i].author_id = matched[i][2]
                  /\ \E k \in DOMAIN professor_stack :
                        /\ professor_stack[k].id = matched[i][1]
                        /\ professor_stack[k].nome_completo
                             = final_matches[i].nome_completo_rubrica
        /\ m_pc # "resolved" =>
               \A i \in DOMAIN matched :
                  /\ final_matches[i].nome_operativo_miur = matched[i][1]
                  /\ final_matches[i].id_openalex = matched[i][2]

\* Two professors and two authors, every pair above the threshold: two
\* matches are emitted and the two other candidates are passed over
C1_Witness ==
    /\ m_pc = "resolved"
    /\ Len(all_matches) = 4
    /\ \A i \in DOMAIN all_matches : RLeq(threshold, all_matches[i].score)
    /\ Len(final_matches) = 2

\* The best score of one MIUR row against one OpenAlex row over its display
\* name and its non-empty alternatives, on pre-cleaned names
BestCleanScore(miur_row, oa_row) ==
    LET scores ==
            {calculate_institution_score_v2(miur_row.nome_pulito,
                                            oa_row.display_name_pulito)}
            \cup {calculate_institution_score_v2(
                      miur_row.nome_pulito, oa_row.alternatives_pulite[k]) :
                  k \in DOMAIN oa_row.alternatives_pulite}
    IN CHOOSE x \in scores : \A y \in scores : RLeq(y, x)

\* C2: every match a resolver emits has a score of at least the threshold
\* passed to it, and a score equal to the threshold is enough: the
\* best-ranked candidate is emitted whenever its score is at least the
\* threshold, and the greedy matcher, given one university and one
\* OpenAlex row, emits the pair exactly when its best score is at least
\* the threshold.
C2_ThresholdRespect ==
    Resolved =>
        /\ \A i \in DOMAIN final_matches :
              RLeq(threshold, final_matches[i].score)
        /\ (m_pc \in {"resolved", "institutions_resolved"}
             /\ all_matches # <<>>
             /\ RLeq(threshold, all_matches[1].score))
               => /\ final_matches # <<>>
                  /\ final_matches[1].score = all_matches[1].score
        /\ (m_pc = "greedy_resolved" /\ Len(miur_data) = 1
             /\ Len(oa_data) = 1)
               => (final_matches # <<>>
                   <=> RLeq(threshold,
                            BestCleanScore(miur_data[1], oa_data[1])))

\* A match is emitted at a score equal to the threshold while a candidate
\* below the threshold is left out
C2_Witness ==
    /\ m_pc = "resolved"
    /\ Len(final_matches) = 1
    /\ final_matches[1].score = threshold
    /\ \E i \in DOMAIN all_matches : RLess(all_matches[i].score, threshold)

\* The position of a candidate tuple in the enumeration order of
\* find_best_matches_optimized: professors in list order, then authors in
\* dict order
EnumerationIndex(m) ==
    LET i == CHOOSE k \in DOMAIN professor_stack :
                 professor_stack[k].id = m.prof.id
        j == CHOOSE k \in DOMAIN oa_authors.keys :
                 oa_authors.keys[k] = m.author_id
    IN (i - 1) * Len(oa_authors.keys) + j

TwoProfessorsTieOnOneAuthor ==
    /\ Len(professor_stack) = 2
    /\ Len(oa_authors.keys) = 1
    /\ Len(all_matches) = 2
    /\ all_matches[1].score = all_matches[2].score
    /\ RLeq(threshold, all_matches[1].score)

\* C4: the candidate list is in descending score order with equal scores
\* in enumeration order, and when two professors score the same, at least
\* the threshold, against one single author, exactly the professor listed
\* first is matched.
C4_TieBreaking ==
    /\ m_pc \in {"candidates", "resolved"} =>
          \A i, j \in DOMAIN all_matches :
             i < j =>
                /\ RLeq(all_matches[j].score, all_matches[i].score)
                /\ all_matches[i].score = all_matches[j].score
                     => EnumerationIndex(all_matches[i])
                          < EnumerationIndex(all_matches[j])
    /\ (m_pc = "resolved" /\ TwoProfessorsTieOnOneAuthor)
          => matched = <<<<professor_stack[1].id, oa_authors.keys[1]>>>>

C4_Witness ==
    /\ m_pc = "resolved"
    /\ TwoProfessorsTieOnOneAuthor
    /\ professor_stack[1].nome_completo # professor_stack[2].nome_completo
    /\ Len(final_matches) = 1
    /\ final_matches[1].nome_completo_rubrica
         = professor_stack[1].nome_completo

\* One professor and one author, alone in their group
ScenarioPair(nome_completo, display_name) ==
    /\ Len(professor_stack) = 1
    /\ professor_stack[1].nome_completo = Str(nome_completo)
    /\ Len(oa_authors.keys) = 1
    /\ oa_authors.data[oa_authors.keys[1]].display_name = Str(display_name)

\* C5 as stated: 'Giuseppe VERDI' against 'G. Verdi' earns the +5 bonus,
\* scores 100 and is accepted at every threshold up to 100.
C5_AcceptedUpTo100 ==
    (m_pc = "resolved" /\ ScenarioPair("Giuseppe VERDI", "G. Verdi"))
        => /\ Len(final_matches) = 1
           /\ final_matches[1].score = RInt(100)

\* C5, amended: 'Giuseppe VERDI' against 'G. Verdi' has family score 100
\* and given score 95; the bonus requires both scores above 95, so it is not
\* applied and the final score is 100*0.7 + 95*0.3 = 98.5. The pair is
\* accepted by the resolver exactly at the thresholds up to 98.5.
C5_AcceptedUpTo98_5 ==
    (m_pc \in {"candidates", "resolved"}
     /\ ScenarioPair("Giuseppe VERDI", "G. Verdi"))
        => LET trace == NameScoreTrace(professor_stack[1],
                                       oa_authors.data[oa_authors.keys[1]])
           IN /\ trace.branch = "weighted"
              /\ trace.cognome_score = RInt(100)
              /\ trace.nome_score = RInt(95)
              /\ Len(all_matches) = 1
              /\ all_matches[1].score = Rat(197, 2)
              /\ m_pc = "resolved" =>
                    /\ Len(final_matches) = 1 <=> RLeq(threshold, Rat(197, 2))
                    /\ Len(final_matches) = 0 <=> RLess(Rat(197, 2), threshold)
                    /\ \A i \in DOMAIN final_matches :
                          final_matches[i].score = Rat(197, 2)

C5_Witness ==
    /\ m_pc = "resolved"
    /\ ScenarioPair("Giuseppe VERDI", "G. Verdi")
    /\ threshold = Rat(197, 2)
    /\ Len(final_matches) = 1

\* C6: 'Maria ROSSI' against 'Giuseppe Rossi' (same family name, different
\* full given names, no initial, no abbreviation-table hit) scores at least
\* 60 and below 86: alone in their group, the pair is rejected at threshold
\* 86 and accepted at threshold 60.
C6_RossiBetween60And86 ==
    (m_pc \in {"candidates", "resolved"}
     /\ ScenarioPair("Maria ROSSI", "Giuseppe Rossi"))
        => /\ Len(all_matches) = 1
           /\ RLeq(RInt(60), all_matches[1].score)
           /\ RLess(all_matches[1].score, RInt(86))
           /\ (m_pc = "resolved" /\ threshold = RInt(86))
                 => final_matches = <<>>
           /\ (m_pc = "resolved" /\ threshold = RInt(60))
                 => /\ Len(final_matches) = 1
                    /\ final_matches[1].score = all_matches[1].score
                    /\ final_matches[1].nome_completo_rubrica
                         = Str("Maria ROSSI")

C6_Witness ==
    /\ m_pc = "resolved"
    /\ ScenarioPair("Maria ROSSI", "Giuseppe Rossi")
    /\ threshold = RInt(60)
    /\ Len(final_matches) = 1
    /\ final_matches[1].score = Rat(333, 4)

\* The scores of one MIUR row against an OpenAlex row's display name and
\* its non-empty alternatives
PairScores(miur_row, oa_row) ==
    {calculate_institution_score(miur_row.NomeOperativo,
                                 oa_row.display_name)}
    \cup {calculate_institution_score(miur_row.NomeOperativo,
                                      oa_row.display_name_alternatives[k]) :
          k \in {k \in DOMAIN oa_row.display_name_alternatives :
                    oa_row.display_name_alternatives[k] # <<>>}}

\* C8: after candidate generation with alternate names the candidate list
\* holds at most one tuple per (MIUR row, OpenAlex row) pair, and the
\* tuple's score is the maximum of the display-name score and all the
\* alternate-name scores of the pair.
C8_MaxOverAlternates ==
    m_pc = "institution_candidates" =>
        \A i \in DOMAIN miur_data, j \in DOMAIN oa_data :
            LET tuples ==
                    SelectSeq(all_matches,
                              LAMBDA m :
                                  /\ m.miur_row.NomeOperativo
                                       = miur_data[i].NomeOperativo
                                  /\ m.oa_row.id = oa_data[j].id)
                scores == PairScores(miur_data[i], oa_data[j])
                best == CHOOSE x \in scores : \A y \in scores : RLeq(y, x)
            IN /\ Len(tuples) <= 1
               /\ RLess(RInt(0), best)
                    => (Len(tuples) = 1 /\ tuples[1].score = best)

\* The OpenAlex rows the greedy matcher had not consumed when it came to
\* the i-th university: those not committed to a university before it
GreedyAvailable(i) ==
    {j \in DOMAIN oa_data :
        ~ \E k \in DOMAIN matched, h \in 1..(i - 1) :
              /\ matched[k][1] = miur_data[h].NomeOperativo
              /\ matched[k][2] = oa_data[j].id}

\* The greatest of a non-empty set of scores; 0 for the empty set
MaxScore(scores) ==
    IF scores = {} THEN RInt(0)
    ELSE CHOOSE x \in scores : \A y \in scores : RLeq(y, x)

\* The maximum over all scores, primary and alternate names, of the rows
\* still available to the i-th university
GreedyMaximum(i) ==
    MaxScore({BestCleanScore(miur_data[i], oa_data[j]) :
                 j \in GreedyAvailable(i)})

DisplayCleanScore(i, j) ==
    calculate_institution_score_v2(miur_data[i].nome_pulito,
                                   oa_data[j].display_name_pulito)

\* The scores of row j that count for the i-th university: its primary
\* name, and its alternate names if the primary name and every name of the
\* available rows before it score below the threshold
GreedyCountedScores(i, j) ==
    IF /\ RLess(DisplayCleanScore(i, j), threshold)
       /\ \A h \in GreedyAvailable(i) :
             h < j => RLess(BestCleanScore(miur_data[i], oa_data[h]),
                            threshold)
    THEN {BestCleanScore(miur_data[i], oa_data[j])}
    ELSE {DisplayCleanScore(i, j)}

GreedyCountedMaximum(i) ==
    MaxScore(UNION {GreedyCountedScores(i, j) : j \in GreedyAvailable(i)})

\* The positions in final_matches of the matches of the i-th university
GreedyMatchesOf(i) ==
    {k \in DOMAIN final_matches :
        final_matches[k].nome_operativo_miur = miur_data[i].NomeOperativo}

\* The matches follow the order of the MIUR rows, at most one per row, each
\* with a row that was still available
GreedyInRowOrder ==
    /\ \A i \in DOMAIN miur_data :
          /\ Cardinality(GreedyMatchesOf(i)) <= 1
          /\ \A k \in GreedyMatchesOf(i) :
                \E j \in GreedyAvailable(i) :
                   /\ final_matches[k].id_openalex = oa_data[j].id
                   /\ matched[k] = <<miur_data[i].NomeOperativo,
                                     oa_data[j].id>>
    /\ \A i1, i2 \in DOMAIN miur_data :
          \A k1 \in GreedyMatchesOf(i1), k2 \in GreedyMatchesOf(i2) :
             i1 < i2 => k1 < k2

MatchPairs(matches) ==
    {<<matches[k].nome_operativo_miur, matches[k].id_openalex>> :
        k \in DOMAIN matches}

\* The pairs the two institution matchers emit for the tables of the state
GlobalSortPairs ==
    MatchPairs(resolve_institution_matches(
                   find_best_institution_matches(miur_data, oa_data),
                   threshold))

GreedyPairs ==
    MatchPairs(greedy_institution_matching(prepare_miur_stack(miur_data),
                                           prepare_oa_stack(oa_data),
                                           threshold))

\* Two universities contend for one OpenAlex institution without alternate
\* names; both score above the threshold, the second one higher
TwoUniversitiesOneInstitution ==
    /\ m_pc \in {"institutions_resolved", "greedy_resolved"}
    /\ threshold = RInt(75)
    /\ [i \in DOMAIN miur_data |-> miur_data[i].NomeOperativo]
         = <<Str("Milano"), Str("Milano Bicocca")>>
    /\ [j \in DOMAIN oa_data |-> oa_data[j].display_name]
         = <<Str("University of Milano-Bicocca")>>

\* C24: the two resolver variants are not equivalent. On the score matrix
\* (620/7, 680/7) of two universities against one OpenAlex institution,
\* the same for both scorers, and threshold 75, sorting all pairs and
\* claiming from the top emits a different set of matches than letting
\* each university in turn take its best available institution.
C24_VariantsDiffer ==
    TwoUniversitiesOneInstitution =>
        /\ \A i \in DOMAIN miur_data :
              /\ calculate_institution_score(miur_data[i].NomeOperativo,
                                             oa_data[1].display_name)
                   = <<Rat(620, 7), Rat(680, 7)>>[i]
              /\ calculate_institution_score_v2(
                     remove_stopwords_from_institution(
                         miur_data[i].NomeOperativo),
                     remove_stopwords_from_institution(
                         oa_data[1].display_name))
                   = <<Rat(620, 7), Rat(680, 7)>>[i]
        /\ GlobalSortPairs # GreedyPairs
        /\ GlobalSortPairs = {<<Str("Milano Bicocca"), oa_data[1].id>>}
        /\ GreedyPairs = {<<Str("Milano"), oa_data[1].id>>}
        /\ MatchPairs(final_matches)
             = IF m_pc = "greedy_resolved" THEN GreedyPairs
               ELSE GlobalSortPairs

\* The greedy matcher has given the institution to the first university
C24_Witness ==
    /\ TwoUniversitiesOneInstitution
    /\ m_pc = "greedy_resolved"
    /\ Len(final_matches) = 1
    /\ final_matches[1].nome_operativo_miur = Str("Milano")

\* The resolver that walks the whole list and passes over the candidates
\* below the threshold instead of stopping at the first of them
RECURSIVE ResolveSkippingLoop(_, _, _, _, _)
ResolveSkippingLoop(all, authors_dict, threshold_resolve, i, st) ==
    IF i > Len(all) THEN st
    ELSE IF RLess(all[i].score, threshold_resolve)
            \/ all[i].prof.id \in st.used_registry
            \/ all[i].author_id \in st.used_candidates
    THEN ResolveSkippingLoop(all, authors_dict, threshold_resolve, i + 1, st)
    ELSE ResolveSkippingLoop(
             all, authors_dict, threshold_resolve, i + 1,
             Commit(st,
                    [score |-> all[i].score,
                     nome_completo_rubrica |-> all[i].prof.nome_completo,
                     display_name |->
                         authors_dict.data[all[i].author_id].display_name,
                     author_id |-> all[i].author_id,
                     orcid |-> authors_dict.data[all[i].author_id].orcid],
                    all[i].prof.id, all[i].author_id))

\* C22: after resolve_matches has run on the list of the candidate
\* generator, every candidate with a score of at least the threshold has
\* its professor or its author in an emitted match, and the result is the
\* one of walking the whole list and passing over the candidates below the
\* threshold.
C22_ResolverMaximal ==
    m_pc = "resolved" =>
        /\ \A i \in DOMAIN all_matches :
              RLeq(threshold, all_matches[i].score)
                 => \E k \in DOMAIN matched :
                       \/ matched[k][1] = all_matches[i].prof.id
                       \/ matched[k][2] = all_matches[i].author_id
        /\ final_matches
             = ResolveSkippingLoop(all_matches, oa_authors, threshold, 1,
                                   ResolverStart).final_matches

\* The resolver stopped at a candidate below the threshold after emitting
\* a match and passing over a candidate whose professor was taken
C22_Witness ==
    /\ m_pc = "resolved"
    /\ Len(final_matches) = 1
    /\ \E i \in DOMAIN all_matches :
          RLess(all_matches[i].score, threshold)
    /\ \E i \in DOMAIN all_matches :
          /\ i > 1
          /\ RLeq(threshold, all_matches[i].score)

\* The candidates of a list that score above the given noise floor
AboveFloor(scored, floor) ==
    SelectSeq(scored, LAMBDA m : RLess(floor, m.score))

\* Floors below the acceptance thresholds
NoiseFloors == {RInt(0), RInt(SCORE_APPEND_THRESHOLD), RInt(59), RInt(85)}

\* For the list of all scored pairs of the group, in the generator's order:
\* the generator's list is its part above the configured floor, and for
\* every floor below a threshold the part above the floor resolves to the
\* same matches as the whole list
NoiseFloorIrrelevantFor(scored) ==
    /\ all_matches = AboveFloor(scored, RInt(SCORE_APPEND_THRESHOLD))
    /\ \A t \in ResolveThresholds, floor \in NoiseFloors :
          RLess(floor, t)
             => resolve_matches(AboveFloor(scored, floor), oa_authors, t)
                  = resolve_matches(scored, oa_authors, t)

\* C26: for every noise floor below the acceptance threshold, resolving
\* the candidates that score above the floor gives exactly the matches of
\* resolving the list of all scored pairs (the generator's list with a
\* floor of -1); the matches of the run are those of its candidates above
\* any such floor.
C26_NoiseFloorIrrelevant ==
    /\ m_pc = "candidates" =>
          NoiseFloorIrrelevantFor(
              find_best_matches_optimized(professor_stack, oa_authors,
                                          RInt(-1)))
    /\ m_pc = "resolved" =>
          \A floor \in NoiseFloors :
             RLess(floor, threshold)
                => final_matches
                     = resolve_matches(AboveFloor(all_matches, floor),
                                       oa_authors, threshold)

\* A pair scoring below the configured floor never became a candidate,
\* another candidate lies between floor and threshold, and a match is made
C26_Witness ==
    /\ m_pc = "resolved"
    /\ final_matches # <<>>
    /\ Len(all_matches) < Len(professor_stack) * Len(oa_authors.keys)
    /\ \E i \in DOMAIN all_matches : RLess(all_matches[i].score, threshold)

-----------------------------------------------------------------------------
(* Batch driver (matcher_optimized.py)                                     *)

NaN == "NaN"

\* Series.unique(): the distinct values in order of first appearance
RECURSIVE unique(_)
unique(values) ==
    IF values = <<>> THEN <<>>
    ELSE LET front == unique(SubSeq(values, 1, Len(values) - 1))
             last == values[Len(values)]
         IN IF last \in Range(front) THEN front ELSE Append(front, last)

\* df['id_oa'].dropna().unique().tolist()
get_university_list(rubrica_csv) ==
    unique(SelectSeq([i \in DOMAIN rubrica_csv |-> rubrica_csv[i].id_oa],
                     LAMBDA v : v # NaN))

\* A loader that keeps every row that has an institution id
load_professor_stack_forid_NoFilter(rubrica_csv, id_ateneo) ==
    LET rows == SelectSeq(rubrica_csv, LAMBDA row : row.id_oa # NaN)
    IN [i \in DOMAIN rows |->
           [id |-> rows[i].id, nome_completo |-> rows[i].cognome_e_nome,
            id_oa_ateneo |-> rows[i].id_oa]]

\* The rows with pd.notna(id_oa) and str(id_oa) == str(id_ateneo); both are
\* strings, so the comparison is the one of the strings. Of the dict built
\* per row, the fields fascia and ateneo, which nothing reads, are left out
load_professor_stack_forid(rubrica_csv, id_ateneo) ==
    LET rows == SelectSeq(rubrica_csv,
                          LAMBDA row : row.id_oa # NaN
                                       /\ row.id_oa = id_ateneo)
    IN [i \in DOMAIN rows |->
           [id |-> rows[i].id, nome_completo |-> rows[i].cognome_e_nome,
            id_oa_ateneo |-> rows[i].id_oa]]

\* The aggregation pipeline: $unwind affiliations, $match on the
\* institution id: one document per matching affiliation of an author
RECURSIVE Aggregate(_, _)
Aggregate(collection, institution_id) ==
    IF collection = <<>> THEN <<>>
    ELSE LET doc == Head(collection)
             hits == SelectSeq(doc.affiliations,
                               LAMBDA a : a = institution_id)
         IN [k \in DOMAIN hits |-> doc]
            \o Aggregate(Tail(collection), institution_id)

get_authors_by_institution_id(institution_id, collection) ==
    LET cursor == SelectSeq(Aggregate(collection, institution_id),
                            LAMBDA doc : doc.id # <<>>)
        ids == unique([k \in DOMAIN cursor |-> cursor[k].id])
    IN [keys |-> ids,
        data |-> [a \in Range(ids) |->
                     LET doc == cursor[CHOOSE k \in DOMAIN cursor :
                                           cursor[k].id = a]
                     IN [display_name |-> doc.display_name,
                         orcid |-> doc.orcid]]]

\* f"{score:.2f}": the score in hundredths, rounded half to even
FormatScore(score) ==
    LET n == score[1] * 100
        q == n \div score[2]
        r == n % score[2]
    IN IF 2 * r < score[2] THEN q
       ELSE IF 2 * r > score[2] THEN q + 1
       ELSE IF q % 2 = 0 THEN q ELSE q + 1

\* The output row of one match; the professor is looked up by full name
OutputRow(ateneo_id, match, professors) ==
    LET found == SelectSeq(professors,
                           LAMBDA prof : prof.nome_completo
                                         = match.nome_completo_rubrica)
    IN [ateneo_id |-> ateneo_id,
        score |-> FormatScore(match.score),
        nome_completo_rubrica |->
            IF found # <<>> THEN found[1].nome_completo ELSE <<>>,
        display_name_openalex |-> match.display_name,
        author_id_openalex |-> match.author_id,
        orcid |-> IF match.orcid = "None" THEN "" ELSE match.orcid]

\* matcher_optimized.py line 288: the loop runs over atenei_id[:2]
SliceLength == 2

AteneiSlice(list) == SubSeq(list, 1, Min2(SliceLength, Len(list)))

MaxRubricaRows == 3
MaxMongoDocs == 2

InstitutionIds == {"I1", "I2", "I3"}

\* Names and ORCIDs by position in the file and in the collection
RubricaNames == <<Str("Giuseppe VERDI"), Str("Maria ROSSI")>>
MongoNames == <<Str("Giuseppe Verdi"), Str("M. Rossi")>>
MongoOrcids == <<"0000-0001", "None">>

Cyclic(list, i) == list[((i - 1) % Len(list)) + 1]

\* The name cell of the last row may be empty
Rubricas ==
    {[i \in DOMAIN ids |->
         [id |-> ProfId(i),
          cognome_e_nome |-> IF nameless /\ i = Len(ids) THEN NaNCell
                             ELSE Cyclic(RubricaNames, i),
          id_oa |-> ids[i]]] :
        ids \in SeqsUpTo(InstitutionIds \cup {NaN}, MaxRubricaRows),
        nameless \in BOOLEAN}

AffiliationLists == {<<"I1">>, <<"I1", "I1", "I2">>}

\* The last document may lack its display_name: doc.get gives ""
Collections ==
    {[j \in DOMAIN affiliations |->
         [id |-> AuthorId(j),
          display_name |-> IF nameless /\ j = Len(affiliations) THEN <<>>
                           ELSE Cyclic(MongoNames, j),
          orcid |-> Cyclic(MongoOrcids, j),
          affiliations |-> affiliations[j]]] :
        affiliations \in SeqsUpTo(AffiliationLists, MaxMongoDocs),
        nameless \in BOOLEAN}

\* The rubrica file is readable throughout the run; the Mongo query may fail
InitBatch ==
    /\ ScorerIdle
    /\ MatchIdle
    /\ NamesIdle
    /\ DownloadIdle
    /\ WeightsIdle
    /\ ScraperIdle
    /\ b_pc = "start"
    /\ rubrica \in Rubricas
    /\ mongo \in Collections
    /\ atenei_id = <<>>
    /\ ateneo_idx = 0
    /\ csv_rows = <<>>
    /\ csv_pairs = <<>>
    /\ cycles = <<>>
    /\ total_oa_authors = 0
    /\ total_miur_profs = 0
    /\ total_matches = 0
    /\ processed_atenei = 0
    /\ b_errors = <<>>
    /\ csv_disk = 0
    /\ csv_sets = <<>>

CurrentAteneo == AteneiSlice(atenei_id)[ateneo_idx]

RECURSIVE SumWritten(_)
SumWritten(sets) ==
    IF sets = <<>> THEN 0 ELSE Head(sets).written + SumWritten(Tail(sets))

\* atenei_id = get_university_list(); return if it is empty; open the file
GetUniversityList ==
    /\ b_pc = "start"
    /\ atenei_id' = get_university_list(rubrica)
    /\ b_pc' = IF atenei_id' = <<>> THEN "returned" ELSE "loop"
    /\ ateneo_idx' = 1
    /\ UNCHANGED <<rubrica, mongo, csv_rows, csv_pairs, cycles,
                   total_oa_authors, total_miur_profs, total_matches,
                   processed_atenei, b_errors, csv_disk, csv_sets,
                   scorerVars, matchVars, namesVars, downloadVars,
                   weightVars, scraperVars>>

\* Step 1 of the loop body: load both sides; skip the institution if
\* either is empty
LoadAteneo ==
    /\ b_pc = "loop"
    /\ ateneo_idx <= Len(AteneiSlice(atenei_id))
    /\ \E query_ok \in BOOLEAN :
        /\ professor_stack' = load_professor_stack_forid(rubrica,
                                                         CurrentAteneo)
        /\ oa_authors' = IF query_ok
                         THEN get_authors_by_institution_id(CurrentAteneo,
                                                            mongo)
                         ELSE EmptyDict
    /\ cycles' = Append(cycles, CurrentAteneo)
    /\ total_oa_authors' = total_oa_authors + Len(oa_authors'.keys)
    /\ total_miur_profs' = total_miur_profs + Len(professor_stack')
    /\ IF professor_stack' = <<>> \/ oa_authors'.keys = <<>>
       THEN b_pc' = "loop" /\ ateneo_idx' = ateneo_idx + 1
       ELSE b_pc' = "loaded" /\ ateneo_idx' = ateneo_idx
    /\ UNCHANGED <<rubrica, mongo, atenei_id, csv_rows, csv_pairs,
                   total_matches, processed_atenei, b_errors, csv_disk,
                   csv_sets, m_pc, miur_data, oa_data,
                   threshold, all_matches, final_matches, matched,
                   scorerVars,
                   namesVars, downloadVars, weightVars, scraperVars>>

\* Step 2: preprocessing, in place. If normalize_name raises for a
\* professor, the records before it are preprocessed already and the
\* authors are not reached
PreprocessAteneo ==
    /\ b_pc = "loaded"
    /\ IF FirstRaising(professor_stack) = 0
       THEN /\ professor_stack' = preprocess_professor_data(professor_stack)
            /\ oa_authors' = preprocess_authors_data(oa_authors)
            /\ b_pc' = "preprocessed"
       ELSE /\ professor_stack' =
                  PreprocessedBefore(professor_stack,
                                     FirstRaising(professor_stack))
            /\ oa_authors' = oa_authors
            /\ b_pc' = "raised"
    /\ UNCHANGED <<rubrica, mongo, atenei_id, ateneo_idx, csv_rows,
                   csv_pairs, cycles, total_oa_authors, total_miur_profs,
                   total_matches, processed_atenei, b_errors, csv_disk,
                   csv_sets, m_pc, miur_data, oa_data,
                   threshold, all_matches, final_matches, matched,
                   scorerVars,
                   namesVars, downloadVars, weightVars, scraperVars>>

\* Step 3: candidate generation and resolution
MatchAteneo ==
    /\ b_pc = "preprocessed"
    /\ all_matches' = find_best_matches_optimized(
                          professor_stack, oa_authors,
                          RInt(SCORE_APPEND_THRESHOLD))
    /\ final_matches' = resolve_matches(all_matches', oa_authors,
                                        RInt(RESOLVE_THRESHOLD))
    /\ matched' = ResolveMatchesLoop(all_matches', oa_authors,
                                     RInt(RESOLVE_THRESHOLD), 1,
                                     ResolverStart).matched
    /\ b_pc' = "matched"
    /\ UNCHANGED <<rubrica, mongo, atenei_id, ateneo_idx, csv_rows,
                   csv_pairs, cycles, total_oa_authors, total_miur_profs,
                   total_matches, processed_atenei, b_errors, csv_disk,
                   csv_sets, m_pc, professor_stack,
                   oa_authors, miur_data, oa_data, threshold, scorerVars,
                   namesVars, downloadVars, weightVars, scraperVars>>

\* The rows step 4 writes for the matches of the institution
OutputRows(ateneo_id, matches, professors) ==
    [k \in DOMAIN matches |-> OutputRow(ateneo_id, matches[k], professors)]

\* Steps 4 and 5: write one row per match, flush, count the institution,
\* remove the derived fields and release the group's data ("del")
SaveAteneo ==
    /\ b_pc = "matched"
    /\ csv_rows' = csv_rows \o OutputRows(CurrentAteneo, final_matches,
                                          professor_stack)
    /\ csv_pairs' = csv_pairs \o matched
    /\ total_matches' = total_matches + Len(final_matches)
    /\ csv_disk' = 1 + Len(csv_rows')
    /\ csv_sets' = Append(csv_sets, [ateneo_id |-> CurrentAteneo,
                                     matches |-> Len(final_matches),
                                     written |-> Len(final_matches)])
    /\ processed_atenei' = processed_atenei + 1
    /\ professor_stack' = <<>>
    /\ oa_authors' = EmptyDict
    /\ all_matches' = <<>>
    /\ final_matches' = <<>>
    /\ matched' = <<>>
    /\ ateneo_idx' = ateneo_idx + 1
    /\ b_pc' = "loop"
    /\ UNCHANGED <<rubrica, mongo, atenei_id, cycles, total_oa_authors,
                   total_miur_profs, b_errors, m_pc, miur_data, oa_data,
                   threshold, scorerVars, namesVars, downloadVars,
                   weightVars, scraperVars>>

\* An exception that leaves the loop body and the main function
AteneoRaises_Propagates ==
    /\ b_pc \in {"loaded", "preprocessed", "matched", "raised"}
    /\ b_pc' = "aborted"
    /\ UNCHANGED <<rubrica, mongo, atenei_id, ateneo_idx, csv_rows,
                   csv_pairs, cycles, total_oa_authors, total_miur_profs,
                   total_matches, processed_atenei, b_errors, csv_disk,
                   csv_sets, scorerVars, matchVars, namesVars,
                   downloadVars, weightVars, scraperVars>>

\* "except Exception: continue": an exception raised inside the loop body
\* (in step 4, after some of the rows were written) is logged and the loop
\* goes on with the next institution. Nothing is flushed or released
AteneoRaises ==
    /\ b_pc \in {"loaded", "preprocessed", "matched", "raised"}
    /\ IF b_pc = "matched"
       THEN \E n \in 0..Len(final_matches) :
               /\ csv_rows' = csv_rows
                              \o SubSeq(OutputRows(CurrentAteneo,
                                                   final_matches,
                                                   professor_stack), 1, n)
               /\ csv_pairs' = csv_pairs \o SubSeq(matched, 1, n)
               /\ total_matches' = total_matches + n
               /\ csv_sets' = Append(csv_sets,
                                     [ateneo_id |-> CurrentAteneo,
                                      matches |-> Len(final_matches),
                                      written |-> n])
       ELSE UNCHANGED <<csv_rows, csv_pairs, total_matches, csv_sets>>
    /\ b_errors' = Append(b_errors, CurrentAteneo)
    /\ ateneo_idx' = ateneo_idx + 1
    /\ b_pc' = "loop"
    /\ UNCHANGED <<rubrica, mongo, atenei_id, cycles, total_oa_authors,
                   total_miur_profs, processed_atenei, csv_disk, scorerVars,
                   matchVars, namesVars, downloadVars,
                   weightVars, scraperVars>>

\* The process is terminated from outside while the output file is open.
\* What was flushed is on disk; of the lines written since, the buffer may
\* have passed any prefix on. In step 4 some of the rows may be written
ProcessKilled ==
    /\ b_pc \in {"loop", "loaded", "preprocessed", "matched", "raised"}
    /\ IF b_pc = "matched"
       THEN \E n \in 0..Len(final_matches) :
               /\ csv_rows' = csv_rows
                              \o SubSeq(OutputRows(CurrentAteneo,
                                                   final_matches,
                                                   professor_stack), 1, n)
               /\ csv_pairs' = csv_pairs \o SubSeq(matched, 1, n)
               /\ total_matches' = total_matches + n
               /\ csv_sets' = Append(csv_sets,
                                     [ateneo_id |-> CurrentAteneo,
                                      matches |-> Len(final_matches),
                                      written |-> n])
       ELSE UNCHANGED <<csv_rows, csv_pairs, total_matches, csv_sets>>
    /\ csv_disk' \in csv_disk..(1 + Len(csv_rows'))
    /\ b_pc' = "killed"
    /\ UNCHANGED <<rubrica, mongo, atenei_id, ateneo_idx, cycles,
                   total_oa_authors, total_miur_profs, processed_atenei,
                   b_errors, scorerVars, matchVars, namesVars,
                   downloadVars, weightVars, scraperVars>>

\* The loop is over: the final statistics are logged and the output file
\* is closed
PrintStatistics ==
    /\ b_pc = "loop"
    /\ ateneo_idx > Len(AteneiSlice(atenei_id))
    /\ csv_disk' = 1 + Len(csv_rows)
    /\ b_pc' = "done"
    /\ UNCHANGED <<rubrica, mongo, atenei_id, ateneo_idx, csv_rows,
                   csv_pairs, cycles, total_oa_authors, total_miur_profs,
                   total_matches, processed_atenei, b_errors, csv_sets,
                   scorerVars, matchVars, namesVars, downloadVars,
                   weightVars, scraperVars>>

NextBatch ==
    \/ GetUniversityList
    \/ LoadAteneo
    \/ PreprocessAteneo
    \/ MatchAteneo
    \/ SaveAteneo
    \/ AteneoRaises
    \/ ProcessKilled
    \/ PrintStatistics

SpecBatch == InitBatch /\ [][NextBatch]_vars

\* The rubrica row of a professor id, and the document of an author id
RubricaRow(prof_id) ==
    rubrica[CHOOSE i \in DOMAIN rubrica : rubrica[i].id = prof_id]

MongoDoc(author_id) ==
    mongo[CHOOSE j \in DOMAIN mongo : mongo[j].id = author_id]

\* C9: every output row written under institution id G pairs a professor
\* whose id_oa is G with an author the query for G returns (an author with
\* an affiliation to G), and every candidate the driver scores for G pairs
\* a professor of G with an author of G.
C9_NoCrossGroup ==
    /\ Len(csv_pairs) = Len(csv_rows)
    /\ \A k \in DOMAIN csv_rows :
          /\ RubricaRow(csv_pairs[k][1]).id_oa = csv_rows[k].ateneo_id
          /\ RubricaRow(csv_pairs[k][1]).cognome_e_nome
               = csv_rows[k].nome_completo_rubrica
          /\ csv_rows[k].author_id_openalex = csv_pairs[k][2]
          /\ csv_rows[k].ateneo_id
               \in Range(MongoDoc(csv_pairs[k][2]).affiliations)
    /\ b_pc = "matched" =>
          \A i \in DOMAIN all_matches :
             /\ all_matches[i].prof.id_oa_ateneo = CurrentAteneo
             /\ RubricaRow(all_matches[i].prof.id).id_oa = CurrentAteneo
             /\ CurrentAteneo
                  \in Range(MongoDoc(all_matches[i].author_id).affiliations)

\* A row is written for one institution although the rubrica holds, under
\* another institution, a professor of the same name, and the matched
\* author has no affiliation to that other institution
C9_Witness ==
    /\ b_pc = "done"
    /\ csv_rows # <<>>
    /\ \E i \in DOMAIN rubrica :
          /\ rubrica[i].id_oa \notin {NaN, csv_rows[1].ateneo_id}
          /\ rubrica[i].cognome_e_nome = csv_rows[1].nome_completo_rubrica
          /\ rubrica[i].id_oa
               \notin Range(MongoDoc(csv_pairs[1][2]).affiliations)

\* C30 as stated: across all institutions of one batch run, no OpenAlex
\* author id is in more than one row of the output file.
C30_RunWideAuthorUniqueness ==
    \A i, j \in DOMAIN csv_rows :
        csv_rows[i].author_id_openalex = csv_rows[j].author_id_openalex
           => i = j

\* C30, amended: no OpenAlex author id is in more than one output row of
\* the same institution; an author affiliated with several processed
\* institutions can be in one row for each of them, since the resolver's
\* used sets are made anew for every institution.
C30_AuthorUniquePerInstitution ==
    \A i, j \in DOMAIN csv_rows :
        (/\ csv_rows[i].author_id_openalex = csv_rows[j].author_id_openalex
         /\ csv_rows[i].ateneo_id = csv_rows[j].ateneo_id)
           => i = j

\* The run is over; an author affiliated with both processed institutions
\* is in a row of each, and one institution has rows for two authors
C30_Witness ==
    /\ b_pc = "done"
    /\ \E i, j \in DOMAIN csv_rows :
          /\ csv_rows[i].author_id_openalex
               = csv_rows[j].author_id_openalex
          /\ csv_rows[i].ateneo_id # csv_rows[j].ateneo_id
    /\ \E i, j \in DOMAIN csv_rows :
          /\ csv_rows[i].author_id_openalex
               # csv_rows[j].author_id_openalex
          /\ csv_rows[i].ateneo_id = csv_rows[j].ateneo_id

\* C10: when the final statistics are printed, the loop body has run for
\* every institution id of the list get_university_list returned, once
\* each, in list order.
C10_CoversEveryInstitution ==
    b_pc = "done" => cycles = atenei_id

\* The institution the loop stands at, if any
InProgressAteneo ==
    IF ateneo_idx \in DOMAIN AteneiSlice(atenei_id) THEN CurrentAteneo
    ELSE NaN

\* The number of rows written up to and including those of the k-th
\* institution that reached the save step
RowsThrough(k) == SumWritten(SubSeq(csv_sets, 1, k))

\* C14 - Crash durability: when the matcher process has been terminated,
\* the output file holds on disk the header and, for every institution
\* before the interrupted one, all the rows of its matches; only the
\* institution in progress may have part of its rows or none.
C14_CrashDurability ==
    b_pc = "killed" =>
        /\ csv_disk >= 1
        /\ \A k \in DOMAIN csv_sets :
              csv_sets[k].ateneo_id # InProgressAteneo
                 => /\ csv_sets[k].written = csv_sets[k].matches
                    /\ 1 + RowsThrough(k) <= csv_disk

MissingName(name) == name = NaNCell \/ name = <<>>

\* C18 - Missing or empty name: a professor without a name and an author
\* without a display name make nothing raise, are in no candidate of the
\* candidate list and in no written match.
C18_MissingNameScoresZero ==
    /\ b_pc = "raised"
          => \A i \in DOMAIN professor_stack :
                ~MissingName(professor_stack[i].nome_completo)
    /\ \A i \in DOMAIN all_matches :
          /\ ~MissingName(all_matches[i].prof.nome_completo)
          /\ ~MissingName(MongoDoc(all_matches[i].author_id).display_name)
    /\ \A k \in DOMAIN csv_rows :
          /\ ~MissingName(csv_rows[k].nome_completo_rubrica)
          /\ ~MissingName(csv_rows[k].display_name_openalex)

\* C20 - Per-group release: when the load of the next institution is about
\* to begin, no professor record and no author record carries a derived
\* preprocessing field, and the candidate list and the match list of the
\* previous institution are released, however the previous institution
\* ended.
C20_ReleasedBeforeNextLoad ==
    (b_pc = "loop" /\ ateneo_idx \in DOMAIN AteneiSlice(atenei_id))
        => /\ professor_stack
                = cleanup_preprocessed_data(professor_stack,
                                            oa_authors).professors
           /\ oa_authors
                = cleanup_preprocessed_data(professor_stack,
                                            oa_authors).authors_dict
           /\ all_matches = <<>>
           /\ final_matches = <<>>

-----------------------------------------------------------------------------
(* Name functions: the normalizer and the two parsers, each applied to one *)
(* input (matching_functionsV4.py)                                         *)

MaxNameLen == 3
MaxTokens == 7
MaxProfTokens == 3

NameAlphabet ==
    {"a", "Z", " ", "TAB", ",", "e_grave", "COMB_GRAVE", "U2013", "U00B4"}

NameStrings == SeqsUpTo(NameAlphabet, MaxNameLen)

AuthorTokenPool == {Str("G."), Str("Verdi"), Str("Maria")}

AuthorTokenLists == SeqsUpTo(AuthorTokenPool, MaxTokens)

ProfTokenPool ==
    {Str("ROSSI"), Str("Maria"), Str("D'ANGELO"), Str("G."), Str("de"),
     <<"N", "i", "c", "o", "l", "e_grave">>}

ProfessorNames == {join(t) : t \in SeqsUpTo(ProfTokenPool, MaxProfTokens)}

InitNames ==
    /\ ScorerIdle
    /\ MatchIdle
    /\ BatchIdle
    /\ DownloadIdle
    /\ WeightsIdle
    /\ ScraperIdle
    /\ n_pc = "input"
    /\ n_result = NoValue
    /\ n_again = NoValue
    /\ \/ n_fn = "normalize_name" /\ n_input \in NameStrings
       \/ n_fn = "parse_author_name" /\ n_input \in AuthorTokenLists
       \/ n_fn = "parse_professor_name" /\ n_input \in ProfessorNames

\* normalize_name(name)
NormalizeName ==
    /\ n_pc = "input"
    /\ n_fn = "normalize_name"
    /\ n_result' = normalize_name(n_input)
    /\ n_pc' = "applied"
    /\ UNCHANGED <<n_fn, n_input, n_again, scorerVars, matchVars, batchVars,
                   downloadVars, weightVars, scraperVars>>

\* normalize_name(.) of a string normalize_name returned
NormalizeAgain ==
    /\ n_pc = "applied"
    /\ n_fn = "normalize_name"
    /\ n_again' = normalize_name(n_result)
    /\ n_pc' = "reapplied"
    /\ UNCHANGED <<n_fn, n_input, n_result, scorerVars, matchVars, batchVars,
                   downloadVars, weightVars, scraperVars>>

\* parse_author_name(author_tokens)
ParseAuthorName ==
    /\ n_pc = "input"
    /\ n_fn = "parse_author_name"
    /\ n_result' = parse_author_name(n_input)
    /\ n_pc' = "applied"
    /\ UNCHANGED <<n_fn, n_input, n_again, scorerVars, matchVars, batchVars,
                   downloadVars, weightVars, scraperVars>>

\* parse_professor_name(prof_tokens, original_name), called as the scorer
\* calls it: with the tokens of the normalized name and the name itself
ParseProfessorName ==
    /\ n_pc = "input"
    /\ n_fn = "parse_professor_name"
    /\ n_result' = parse_professor_name(split(normalize_name(n_input)),
                                        n_input)
    /\ n_pc' = "applied"
    /\ UNCHANGED <<n_fn, n_input, n_again, scorerVars, matchVars, batchVars,
                   downloadVars, weightVars, scraperVars>>

NextNames ==
    \/ NormalizeName
    \/ NormalizeAgain
    \/ ParseAuthorName
    \/ ParseProfessorName

SpecNames == InitNames /\ [][NextNames]_vars

\* C15: normalizing a normalized name changes nothing, and the empty
\* string and every whitespace-only string normalize to the empty string.
C15_NormalizeIdempotent ==
    /\ (n_fn = "normalize_name" /\ n_pc = "reapplied") => n_again = n_result
    /\ (n_fn = "normalize_name" /\ n_pc \in {"applied", "reapplied"}
        /\ \A i \in DOMAIN n_input : n_input[i] \in Whitespace)
           => n_result = <<>>

\* The first pass removed an accent, replaced a comma and collapsed the
\* whitespace it left, and the second pass found nothing to change
C15_Witness ==
    /\ n_fn = "normalize_name"
    /\ n_pc = "reapplied"
    /\ n_input = <<"e_grave", ",", "TAB">>
    /\ n_result = <<"e">>
    /\ n_again = <<"e">>

\* The result the rules of the candidate parser give, in their order, as
\* the claim lists them
AuthorRules(tokens) ==
    IF Len(tokens) = 2 /\ is_initial(tokens[1])
    THEN [nome |-> <<tokens[1][1]>>, cognome |-> tokens[2],
          is_list |-> FALSE]
    ELSE IF Len(tokens) = 2
    THEN [nome |-> tokens[1], cognome |-> tokens[2], is_list |-> FALSE]
    ELSE IF Len(tokens) > 6
    THEN [nome |-> <<>>, cognome |-> <<>>, is_list |-> FALSE]
    ELSE [nome |-> <<>>, cognome |-> tokens, is_list |-> TRUE]

AuthorParsed == n_fn = "parse_author_name" /\ n_pc = "applied"

ProfessorParsed ==
    /\ n_fn = "parse_professor_name"
    /\ n_pc = "applied"
    /\ Len(split(n_input)) >= 2

\* The parts the registry parser's rule gives when Qualifies(token) tells
\* a family-name token: <<given, family>>
RegistryRule(tokens, Qualifies(_)) ==
    IF \E i \in DOMAIN tokens : Qualifies(tokens[i])
    THEN <<join(SelectSeq(tokens, LAMBDA t : ~Qualifies(t))),
           join(SelectSeq(tokens, Qualifies))>>
    ELSE <<join(Tail(tokens)), tokens[1]>>

\* A token made up only of uppercase alphabetic characters
OnlyUppercaseLetters(token) ==
    token # <<>> /\ \A i \in DOMAIN token : IsUpperCased(token[i])

\* A token with an uppercase letter and no lowercase letter
UppercaseNoLowercase(token) ==
    /\ \E i \in DOMAIN token : IsUpperCased(token[i])
    /\ \A i \in DOMAIN token : ~IsLowerCased(token[i])

-----------------------------------------------------------------------------
(* Paginated downloaders: Ingestion/API/Estrazioni_OA_Claude.py            *)
(* (scarica_works_OA) and Ingestion/API/Estrazioni_OA_test.py              *)
(* (scarica_authors_OA, scarica_works_OA).  A cursor is the number of the  *)
(* page it asks for: 1 stands for "*", 0 for an absent next_cursor.  The   *)
(* periodic flush of the output file has no effect on this state.          *)

MaxInst == 2
MaxPages == 2
MaxFaults == 4

\* Estrazioni_OA_Claude.py line 135: "len(errori) <= 3"
RETRY_ERRORS == 3
\* Estrazioni_OA_test.py lines 84 and 116: "test < 5", "results[0:5]"
TEST_PAGES == 5
TEST_RESULTS == 5

Downloaders == {"works", "authors_test", "works_test"}

RECURSIVE SumSeq(_)
SumSeq(q) == IF q = <<>> THEN 0 ELSE Head(q) + SumSeq(Tail(q))

\* The pages of one institution, by the number of results on each
PageLists == SeqsUpTo({0, 1}, MaxPages) \ {<<>>}

\* The response to a request with the given cursor: meta.count,
\* len(results) and meta.next_cursor
ServedPage(pages, page_cursor) ==
    [count |-> SumSeq(pages), results |-> pages[page_cursor],
     next_cursor |-> IF page_cursor < Len(pages) THEN page_cursor + 1 ELSE 0]

\* The records one page adds to the output file
WrittenRecords(inst_id, page_cursor, n) ==
    [k \in 1..n |-> [institution |-> inst_id, page |-> page_cursor,
                     record |-> k]]

InitDownload ==
    /\ ScorerIdle
    /\ MatchIdle
    /\ BatchIdle
    /\ NamesIdle
    /\ WeightsIdle
    /\ ScraperIdle
    /\ d_pc = "next_unit"
    /\ d_fn \in Downloaders
    /\ \E n \in 0..MaxInst :
          /\ df = [i \in 1..n |-> OaId(i)]
          /\ api_pages \in [1..n -> PageLists]
    /\ d_idx = 1
    /\ faults = 0
    /\ d_cursor = 0
    /\ pagina = 0
    /\ errori = <<>>
    /\ page_failures = 0
    /\ tot_scritti = 0
    /\ total_count = -1
    /\ test = 0
    /\ d_last = NoRequest
    /\ out_f = <<>>
    /\ universities = <<>>
    /\ d_errors = <<>>

\* The head of the loop over the institutions: the unit's locals are reset
StartUnit ==
    /\ d_pc = "next_unit"
    /\ d_idx <= Len(df)
    /\ d_cursor' = 1
    /\ tot_scritti' = 0
    /\ total_count' = -1
    /\ pagina' = 0
    /\ errori' = <<>>
    /\ page_failures' = 0
    /\ test' = 0
    /\ d_last' = NoRequest
    /\ d_pc' = "requesting"
    /\ UNCHANGED <<d_fn, df, d_idx, api_pages, faults, out_f, universities,
                   d_errors, scorerVars, matchVars, batchVars, namesVars,
                   weightVars, scraperVars>>

\* Estrazioni_OA_Claude.scarica_works_OA: one pass of the while loop in
\* which the request is answered with status 200 and a JSON body
WorksPage ==
    /\ d_pc = "requesting"
    /\ d_fn = "works"
    /\ LET page == ServedPage(api_pages[d_idx], d_cursor)
           first_count == IF total_count = -1 THEN page.count
                          ELSE total_count
           no_works == total_count = -1 /\ page.count <= 0
           last_page == page.next_cursor = 0 \/ page.results = 0
       IN /\ pagina' = pagina + 1
          /\ total_count' = first_count
          /\ d_last' = [kind |-> "page", results |-> page.results,
                        next_cursor |-> page.next_cursor]
          /\ IF no_works
             THEN UNCHANGED <<out_f, tot_scritti>>
             ELSE /\ out_f' = out_f \o WrittenRecords(df[d_idx], d_cursor,
                                                      page.results)
                  /\ tot_scritti' = tot_scritti + page.results
          /\ IF no_works \/ last_page
             THEN d_pc' = "unit_break"
                  /\ UNCHANGED <<d_cursor, page_failures>>
             ELSE /\ d_pc' = "requesting"
                  /\ d_cursor' = page.next_cursor
                  /\ page_failures' = 0
    /\ UNCHANGED <<d_fn, df, d_idx, api_pages, faults, errori, test,
                   universities, d_errors, scorerVars, matchVars, batchVars,
                   namesVars, weightVars, scraperVars>>

\* "except requests.exceptions.RequestException": the error is recorded
\* and the request is repeated while pagina == 1 or len(errori) <= 3
WorksNetworkError ==
    /\ d_pc = "requesting"
    /\ d_fn = "works"
    /\ faults < MaxFaults
    /\ faults' = faults + 1
    /\ pagina' = pagina + 1
    /\ errori' = Append(errori, [kind |-> "network", pagina |-> pagina'])
    /\ page_failures' = page_failures + 1
    /\ d_last' = [kind |-> "network", results |-> 0, next_cursor |-> 0]
    /\ d_pc' = IF pagina' = 1 \/ Len(errori') <= RETRY_ERRORS
               THEN "requesting" ELSE "unit_break"
    /\ UNCHANGED <<d_fn, df, d_idx, api_pages, d_cursor, tot_scritti,
                   total_count, test, out_f, universities, d_errors,
                   scorerVars, matchVars, batchVars, namesVars,
                   weightVars, scraperVars>>

\* A status other than 200, a body that is not JSON, or any other
\* exception in the loop body: the error is recorded and the loop is left
WorksFailure ==
    /\ d_pc = "requesting"
    /\ d_fn = "works"
    /\ faults < MaxFaults
    /\ \E kind \in {"http", "json", "unexpected"} :
          /\ errori' = Append(errori, [kind |-> kind, pagina |-> pagina + 1])
          /\ d_last' = [kind |-> kind, results |-> 0, next_cursor |-> 0]
    /\ faults' = faults + 1
    /\ pagina' = pagina + 1
    /\ d_pc' = "unit_break"
    /\ UNCHANGED <<d_fn, df, d_idx, api_pages, d_cursor, page_failures,
                   tot_scritti, total_count, test, out_f, universities,
                   d_errors, scorerVars, matchVars, batchVars, namesVars,
                   weightVars, scraperVars>>

\* After the while loop: the unit's metadata and errors are recorded
WorksCloseUnit ==
    /\ d_pc = "unit_break"
    /\ d_fn = "works"
    /\ universities' =
          Append(universities,
                 [openalex_institution_id |-> df[d_idx],
                  total_works_found |->
                      IF total_count = -1 THEN 0 ELSE total_count,
                  total_works_extracted |-> tot_scritti,
                  pages_processed |-> pagina,
                  extraction_complete |->
                      tot_scritti
                        = (IF total_count = -1 THEN 0 ELSE total_count),
                  errors |-> errori])
    /\ d_errors' = d_errors \o [k \in DOMAIN errori |-> <<df[d_idx],
                                                          errori[k]>>]
    /\ d_idx' = d_idx + 1
    /\ d_pc' = "next_unit"
    /\ UNCHANGED <<d_fn, df, api_pages, faults, d_cursor, pagina, errori,
                   page_failures, tot_scritti, total_count, test, d_last,
                   out_f, scorerVars, matchVars, batchVars, namesVars,
                   weightVars, scraperVars>>

\* Estrazioni_OA_test.scarica_authors_OA: one pass of the while loop with
\* an answered request. The cursor is assigned inside the loop over the
\* results: an empty page leaves it as it was
AuthorsTestPage ==
    /\ d_pc = "requesting"
    /\ d_fn = "authors_test"
    /\ LET page == ServedPage(api_pages[d_idx], d_cursor)
           new_cursor == IF page.results > 0 THEN page.next_cursor
                         ELSE d_cursor
       IN /\ d_last' = [kind |-> "page", results |-> page.results,
                        next_cursor |-> page.next_cursor]
          /\ out_f' = out_f \o WrittenRecords(df[d_idx], d_cursor,
                                              page.results)
          /\ tot_scritti' = tot_scritti + page.results
          /\ d_cursor' = new_cursor
          /\ d_pc' = IF new_cursor = 0 THEN "unit_break" ELSE "requesting"
    /\ UNCHANGED <<d_fn, df, d_idx, api_pages, faults, pagina, errori,
                   page_failures, total_count, test, universities, d_errors,
                   scorerVars, matchVars, batchVars, namesVars,
                   weightVars, scraperVars>>

\* Estrazioni_OA_test.scarica_works_OA: one pass of the while loop with an
\* answered request; at most TEST_RESULTS records of a page are written
\* and the loop ends after TEST_PAGES pages
WorksTestPage ==
    /\ d_pc = "requesting"
    /\ d_fn = "works_test"
    /\ LET page == ServedPage(api_pages[d_idx], d_cursor)
           last_page == page.next_cursor = 0 \/ page.results = 0
       IN /\ d_last' = [kind |-> "page", results |-> page.results,
                        next_cursor |-> page.next_cursor]
          /\ total_count' = IF total_count = -1 THEN page.count
                            ELSE total_count
          /\ out_f' = out_f \o WrittenRecords(df[d_idx], d_cursor,
                                              Min2(TEST_RESULTS,
                                                   page.results))
          /\ tot_scritti' = tot_scritti + Min2(TEST_RESULTS, page.results)
          /\ IF last_page
             THEN d_pc' = "unit_break" /\ UNCHANGED <<d_cursor, test>>
             ELSE /\ d_cursor' = page.next_cursor
                  /\ test' = test + 1
                  /\ d_pc' = IF test' < TEST_PAGES THEN "requesting"
                             ELSE "unit_break"
    /\ UNCHANGED <<d_fn, df, d_idx, api_pages, faults, pagina, errori,
                   page_failures, universities, d_errors, scorerVars,
                   matchVars, batchVars, namesVars, weightVars, scraperVars>>

\* The test downloaders on a failed request: a network error or a status
\* other than 200 ends the unit ("Termino"); a body that is not JSON ends
\* the unit in scarica_works_OA and, not being caught, the whole run in
\* scarica_authors_OA
TestFailure ==
    /\ d_pc = "requesting"
    /\ d_fn \in {"authors_test", "works_test"}
    /\ faults < MaxFaults
    /\ \E kind \in {"network", "http", "json"} :
          /\ d_last' = [kind |-> kind, results |-> 0, next_cursor |-> 0]
          /\ d_pc' = IF kind = "json" /\ d_fn = "authors_test"
                     THEN "crashed" ELSE "unit_break"
    /\ faults' = faults + 1
    /\ UNCHANGED <<d_fn, df, d_idx, api_pages, d_cursor, pagina, errori,
                   page_failures, tot_scritti, total_count, test, out_f,
                   universities, d_errors, scorerVars, matchVars, batchVars,
                   namesVars, weightVars, scraperVars>>

\* The test downloaders after the while loop: the count is printed
TestCloseUnit ==
    /\ d_pc = "unit_break"
    /\ d_fn \in {"authors_test", "works_test"}
    /\ d_idx' = d_idx + 1
    /\ d_pc' = "next_unit"
    /\ UNCHANGED <<d_fn, df, api_pages, faults, d_cursor, pagina, errori,
                   page_failures, tot_scritti, total_count, test, d_last,
                   out_f, universities, d_errors, scorerVars, matchVars,
                   batchVars, namesVars, weightVars, scraperVars>>

\* The loop over the institutions is over: the metadata file is written
\* and the final summary printed
DownloadSummary ==
    /\ d_pc = "next_unit"
    /\ d_idx > Len(df)
    /\ d_pc' = "done"
    /\ UNCHANGED <<d_fn, df, d_idx, api_pages, faults, d_cursor, pagina,
                   errori, page_failures, tot_scritti, total_count, test,
                   d_last, out_f, universities, d_errors, scorerVars,
                   matchVars, batchVars, namesVars, weightVars, scraperVars>>

NextDownload ==
    \/ StartUnit
    \/ WorksPage
    \/ WorksNetworkError
    \/ WorksFailure
    \/ WorksCloseUnit
    \/ AuthorsTestPage
    \/ WorksTestPage
    \/ TestFailure
    \/ TestCloseUnit
    \/ DownloadSummary

SpecDownload == InitDownload /\ [][NextDownload]_vars

\* C13 - Pagination termination: in every downloader, once a response
\* carries no next_cursor or an empty result page, the cursor loop of the
\* institution has stopped: no further request is made for it.
C13_StopsOnLastPage ==
    (d_last.kind = "page" /\ (d_last.next_cursor = 0 \/ d_last.results = 0))
        => d_pc # "requesting"

\* C12 - Per-page retry bound of scarica_works_OA: a page is requested
\* again after a network error at most RETRY_ERRORS times, and a unit is
\* abandoned for a network error only when the page that failed has used
\* this whole allowance itself, whatever happened on earlier pages; the
\* failure is then in the unit's error list.
C12_PerPageRetryBound ==
    d_fn = "works" =>
        /\ page_failures <= RETRY_ERRORS + 1
        /\ (d_last.kind = "network" /\ d_pc = "requesting")
              => page_failures <= RETRY_ERRORS
        /\ (d_last.kind = "network" /\ d_pc = "unit_break")
              => /\ page_failures = RETRY_ERRORS + 1
                 /\ errori # <<>>
                 /\ errori[Len(errori)].kind = "network"

\* C27 - Audit metadata of scarica_works_OA: an institution is recorded
\* with extraction_complete = true only if its page loop ended with no
\* recorded error and every work the API counts for it was written; an
\* institution abandoned after request failures is never recorded complete.
C27_CompleteOnlyWithoutErrors ==
    d_fn = "works" =>
        \A k \in DOMAIN universities :
            universities[k].extraction_complete
               => /\ universities[k].errors = <<>>
                  /\ universities[k].total_works_extracted
                        = SumSeq(api_pages[k])

-----------------------------------------------------------------------------
(* The two programs that work through a list of institutions, one unit at  *)
(* a time: the matcher and the paginated downloader                        *)

InitUnits == InitBatch \/ InitDownload

NextUnits == NextBatch \/ NextDownload

SpecUnits == InitUnits /\ [][NextUnits]_vars

\* C11 - Failure isolation. Matcher: an exception in the loop body is
\* recorded under its institution and ends that institution's cycle only;
\* the run is never left by an exception, and when the final statistics
\* are printed the loop body has run for every institution the loop
\* iterates. Downloader (scarica_works_OA): a unit is abandoned
\* only with its error recorded, the run never ends on a failure, and at
\* the final summary every institution of the file has its metadata entry,
\* with the errors of each institution in the run's error list.
C11_FailureIsolation ==
    /\ b_pc \in {"idle", "start", "returned", "loop", "loaded",
                 "preprocessed", "matched", "raised", "killed", "done"}
    /\ \A k \in DOMAIN b_errors : b_errors[k] \in Range(cycles)
    /\ Len(b_errors) + processed_atenei <= Len(cycles)
    /\ b_pc = "loop" => Len(cycles) = ateneo_idx - 1
    /\ b_pc = "done" => cycles = AteneiSlice(atenei_id)
    /\ d_fn = "works" =>
          /\ d_pc \in {"next_unit", "requesting", "unit_break", "done"}
          /\ (d_pc = "unit_break" /\ d_last.kind \notin {"page", "none"})
                => /\ errori # <<>>
                   /\ errori[Len(errori)].kind = d_last.kind
          /\ Len(universities)
               = (IF d_pc = "done" THEN Len(df) ELSE d_idx - 1)
          /\ \A i \in DOMAIN universities :
                /\ universities[i].openalex_institution_id = df[i]
                /\ \A k \in DOMAIN universities[i].errors :
                      <<df[i], universities[i].errors[k]>>
                          \in Range(d_errors)

\* The first institution of the matcher ended in the except clause, the
\* second was matched and saved, and the statistics were printed
C11_Witness ==
    /\ b_pc = "done"
    /\ Len(cycles) = 2
    /\ b_errors = <<cycles[1]>>
    /\ processed_atenei = 1
    /\ csv_rows # <<>>

-----------------------------------------------------------------------------
(* The weighted combination of calculate_name_score_optimized              *)
(* (matching_functionsV4.py lines 268-279) on a grid of family-name and    *)
(* given-name scores between 0 and 100                                     *)

WeightSteps == 10

\* The multiples of 100 / WeightSteps and the values next to the limits
\* the formula tests
WeightScores ==
    {Rat(100 * k, WeightSteps) : k \in 0..WeightSteps}
    \cup {Rat(5999, 100), RInt(60), Rat(6001, 100), RInt(95),
          Rat(9501, 100)}

InitWeights ==
    /\ ScorerIdle
    /\ MatchIdle
    /\ BatchIdle
    /\ NamesIdle
    /\ DownloadIdle
    /\ ScraperIdle
    /\ w_pc = "input"
    /\ w_cognome_score \in WeightScores
    /\ w_nome_score \in WeightScores
    /\ w_final_score = RInt(0)

CombineScores ==
    /\ w_pc = "input"
    /\ w_final_score' = WeightedScore(w_cognome_score, w_nome_score)
    /\ w_pc' = "scored"
    /\ UNCHANGED <<w_cognome_score, w_nome_score, scorerVars, matchVars,
                   batchVars, namesVars, downloadVars, scraperVars>>

NextWeights == CombineScores

SpecWeights == InitWeights /\ [][NextWeights]_vars

\* C25: whenever the family-name score is below 60, the final score is
\* half the weighted sum 0.7 * family + 0.3 * given and stays below
\* SCORE_APPEND_THRESHOLD for every given-name score between 0 and 100: the
\* pair is not appended as a candidate ("score > threshold") and is below
\* the default resolve threshold.
C25_LowFamilyScoreNeverCandidate ==
    (w_pc = "scored" /\ RLess(w_cognome_score, RInt(60))) =>
        /\ w_final_score
             = RMul(RAdd(RMul(w_cognome_score, Rat(7, 10)),
                         RMul(w_nome_score, Rat(3, 10))),
                    Rat(1, 2))
        /\ RLess(w_final_score, RInt(SCORE_APPEND_THRESHOLD))
        /\ ~ RLess(RInt(SCORE_APPEND_THRESHOLD), w_final_score)
        /\ BelowThreshold(w_final_score, RInt(RESOLVE_THRESHOLD))

\* The highest score the penalty leaves: family 59.99, given 100
C25_Witness ==
    /\ w_pc = "scored"
    /\ w_cognome_score = Rat(5999, 100)
    /\ w_nome_score = RInt(100)
    /\ w_final_score = Rat(71993, 2000)

-----------------------------------------------------------------------------
(* Course scrapers: Ingestion/Scraper/ScraperUnimib_ClaudeV2.py,           *)
(* ScraperUnimib_Claude.py (the same _safe_request, estrai_info_syllabus   *)
(* and _salva_insegnamento, with the output file at a fixed path) and      *)
(* ScraperUnimib.py (scrivi_insegnamento_senza_duplicati).  Of a course    *)
(* record the fields titolo and corso_di_laurea are kept; the others play  *)
(* no part in saving.                                                      *)

\* ScraperUnimib_ClaudeV2.py line 94: "retry_attempts": 3
retry_attempts == 3

MaxCalls == 3
MaxIoFaults == 1

Scrapers == {"ClaudeV2", "Claude", "Unimib"}

\* The syllabus pages a call can be made for; the last has no title element
SyllabusPages ==
    {[titolo |-> "T1", corso_di_laurea |-> "L1", has_title |-> TRUE],
     [titolo |-> "T2", corso_di_laurea |-> "L1", has_title |-> TRUE],
     [titolo |-> "", corso_di_laurea |-> "L1", has_title |-> FALSE]}

\* asdict(insegnamento)
CourseRecord(page) ==
    [titolo |-> page.titolo, corso_di_laurea |-> page.corso_di_laurea]

\* What a scraper with a fixed output path can find there when it starts
LeftoverFiles ==
    {AbsentFile,
     [kind |-> "array", dati |-> <<>>],
     [kind |-> "array",
      dati |-> <<[titolo |-> "T1", corso_di_laurea |-> "L1"]>>],
     [kind |-> "not_json", dati |-> <<>>],
     [kind |-> "undecodable", dati |-> <<>>],
     [kind |-> "not_array", dati |-> <<>>]}

\* "if filepath.exists(): ... try: dati = json.load(f) except
\* json.JSONDecodeError: dati = [] ... else: dati = []".  Reading bytes
\* that are not UTF-8 raises UnicodeDecodeError, which is no
\* JSONDecodeError; a JSON value that is no array is loaded as it is
LoadDati(file) ==
    CASE file.kind = "absent" ->
             [raises |-> FALSE, is_list |-> TRUE, dati |-> <<>>]
      [] file.kind = "array" ->
             [raises |-> FALSE, is_list |-> TRUE, dati |-> file.dati]
      [] file.kind = "not_json" ->
             [raises |-> FALSE, is_list |-> TRUE, dati |-> <<>>]
      [] file.kind = "undecodable" ->
             [raises |-> TRUE, is_list |-> FALSE, dati |-> <<>>]
      [] file.kind = "not_array" ->
             [raises |-> FALSE, is_list |-> FALSE, dati |-> <<>>]

\* How open(filepath, "w") and json.dump can end: the array is written;
\* open raises and the file stays as it was; the write breaks off and
\* leaves the file cut, between or inside characters
WriteOutcomes == {"ok", "refused", "cut", "cut_in_char"}

WrittenFile(file, dati, write) ==
    CASE write = "ok" -> [kind |-> "array", dati |-> dati]
      [] write = "refused" -> file
      [] write = "cut" -> [kind |-> "not_json", dati |-> <<>>]
      [] write = "cut_in_char" -> [kind |-> "undecodable", dati |-> <<>>]

\* _salva_insegnamento: every exception is caught and logged
_salva_insegnamento(file, insegnamento, write) ==
    LET loaded == LoadDati(file)
    IN IF loaded.raises \/ ~ loaded.is_list
       THEN [file |-> file, raised |-> FALSE]
       ELSE [file |-> WrittenFile(file, Append(loaded.dati, insegnamento),
                                  write),
             raised |-> FALSE]

\* ScraperUnimib.scrivi_insegnamento_senza_duplicati: nothing is caught
\* but the JSONDecodeError of the load
scrivi_insegnamento_senza_duplicati(file, nuovo, write) ==
    LET loaded == LoadDati(file)
        gia_presente ==
            \E k \in DOMAIN loaded.dati :
               /\ loaded.dati[k].titolo = nuovo.titolo
               /\ loaded.dati[k].corso_di_laurea = nuovo.corso_di_laurea
    IN IF loaded.raises \/ ~ loaded.is_list
       THEN [file |-> file, raised |-> TRUE]
       ELSE IF gia_presente THEN [file |-> file, raised |-> FALSE]
       ELSE [file |-> WrittenFile(file, Append(loaded.dati, nuovo), write),
             raised |-> write # "ok"]

\* A retry loop that sleeps after every failed attempt
SleepsBeforeRetry_Always(attempt) == TRUE

\* "if tentativo < self.config['retry_attempts'] - 1"
SleepsBeforeRetry(attempt) == attempt < retry_attempts - 1

\* "for tentativo in range(retry_attempts)": there is a next pass
HasNextAttempt(attempt) == attempt + 1 < retry_attempts

\* The timestamped output directory of ClaudeV2 is new in every run
InitScraper ==
    /\ ScorerIdle
    /\ MatchIdle
    /\ BatchIdle
    /\ NamesIdle
    /\ DownloadIdle
    /\ WeightsIdle
    /\ sc_pc = "ready"
    /\ sc_prog \in Scrapers
    /\ sc_page = NoPage
    /\ tentativo = 0
    /\ sc_call = NoCall
    /\ stats = ScrapingStats
    /\ insegnamenti_salvati = {}
    /\ json_file \in IF sc_prog = "ClaudeV2" THEN {AbsentFile}
                    ELSE LeftoverFiles
    /\ sc_last_save = NoSave
    /\ sc_calls = 0
    /\ sc_faults = 0

\* estrai_info_syllabus is entered and calls _safe_request
StartSyllabus ==
    /\ sc_pc = "ready"
    /\ sc_prog \in {"ClaudeV2", "Claude"}
    /\ sc_calls < MaxCalls
    /\ sc_page' \in SyllabusPages
    /\ sc_calls' = sc_calls + 1
    /\ tentativo' = 0
    /\ sc_call' = [NoCall EXCEPT !.before = stats]
    /\ sc_pc' = "requesting"
    /\ UNCHANGED <<sc_prog, stats, insegnamenti_salvati, json_file,
                   sc_last_save, sc_faults, scorerVars, matchVars,
                   batchVars, namesVars, downloadVars, weightVars>>

\* One pass of the loop of _safe_request in which the GET is answered and
\* the page is parsed: "return soup"
RequestSucceeds ==
    /\ sc_pc = "requesting"
    /\ sc_call' = [sc_call EXCEPT !.gets = @ + 1, !.returned = "soup"]
    /\ sc_pc' = "fetched"
    /\ UNCHANGED <<sc_prog, sc_page, tentativo, stats,
                   insegnamenti_salvati, json_file, sc_last_save, sc_calls,
                   sc_faults, scorerVars, matchVars, batchVars, namesVars,
                   downloadVars, weightVars>>

\* One pass that ends in "except requests.exceptions.RequestException"
RequestFails ==
    /\ sc_pc = "requesting"
    /\ stats' = [stats EXCEPT
                    !.errori_http = @ + 1,
                    !.link_falliti =
                        IF SleepsBeforeRetry(tentativo) THEN @ ELSE @ + 1]
    /\ IF HasNextAttempt(tentativo)
       THEN /\ tentativo' = tentativo + 1
            /\ sc_call' = [sc_call EXCEPT
                              !.gets = @ + 1,
                              !.sleeps = IF SleepsBeforeRetry(tentativo)
                                         THEN @ + 1 ELSE @]
            /\ sc_pc' = "requesting"
       ELSE /\ tentativo' = tentativo
            /\ sc_call' = [sc_call EXCEPT
                              !.gets = @ + 1,
                              !.sleeps = IF SleepsBeforeRetry(tentativo)
                                         THEN @ + 1 ELSE @,
                              !.returned = "None"]
            /\ sc_pc' = "fetched"
    /\ UNCHANGED <<sc_prog, sc_page, insegnamenti_salvati, json_file,
                   sc_last_save, sc_calls, sc_faults, scorerVars, matchVars,
                   batchVars, namesVars, downloadVars, weightVars>>

\* One pass that ends in "except Exception": the loop is left
RequestRaisesOther ==
    /\ sc_pc = "requesting"
    /\ stats' = [stats EXCEPT !.errori_parsing = @ + 1,
                              !.link_falliti = @ + 1]
    /\ sc_call' = [sc_call EXCEPT !.gets = @ + 1, !.returned = "None"]
    /\ sc_pc' = "fetched"
    /\ UNCHANGED <<sc_prog, sc_page, tentativo, insegnamenti_salvati,
                   json_file, sc_last_save, sc_calls, sc_faults, scorerVars,
                   matchVars, batchVars, namesVars, downloadVars,
                   weightVars>>

\* The rest of estrai_info_syllabus after _safe_request has returned: no
\* page, no title, a key already saved, or an exception while the fields
\* are extracted end the call; otherwise the record is saved, the key is
\* added and the counter is incremented
FinishSyllabus ==
    /\ sc_pc = "fetched"
    /\ sc_pc' = "ready"
    /\ \E extraction_raises \in BOOLEAN, write \in WriteOutcomes :
          /\ write # "ok" => sc_faults < MaxIoFaults
          /\ IF \/ sc_call.returned = "None"
                \/ ~ sc_page.has_title
                \/ <<sc_page.titolo, sc_page.corso_di_laurea>>
                      \in insegnamenti_salvati
                \/ extraction_raises
             THEN /\ write = "ok"
                  /\ UNCHANGED <<stats, insegnamenti_salvati, json_file,
                                 sc_last_save, sc_faults>>
             ELSE LET saved == _salva_insegnamento(json_file,
                                                   CourseRecord(sc_page),
                                                   write)
                  IN /\ json_file' = saved.file
                     /\ sc_last_save' =
                           [called |-> TRUE, prior |-> json_file,
                            record |-> sc_page, write |-> write,
                            raised |-> saved.raised]
                     /\ insegnamenti_salvati' =
                           insegnamenti_salvati
                           \cup {<<sc_page.titolo,
                                   sc_page.corso_di_laurea>>}
                     /\ stats' = [stats EXCEPT
                                     !.insegnamenti_estratti = @ + 1]
                     /\ sc_faults' = IF write = "ok" THEN sc_faults
                                     ELSE sc_faults + 1
    /\ UNCHANGED <<sc_prog, sc_page, tentativo, sc_call, sc_calls,
                   scorerVars, matchVars, batchVars, namesVars,
                   downloadVars, weightVars>>

\* ScraperUnimib.estrai_info_syllabus for a page that was fetched: a page
\* without the title element raises; otherwise the record is handed to
\* scrivi_insegnamento_senza_duplicati, whose exceptions end the program
UnimibSyllabus ==
    /\ sc_pc = "ready"
    /\ sc_prog = "Unimib"
    /\ sc_calls < MaxCalls
    /\ sc_calls' = sc_calls + 1
    /\ \E page \in SyllabusPages, write \in WriteOutcomes :
          /\ write # "ok" => sc_faults < MaxIoFaults
          /\ sc_page' = page
          /\ IF ~ page.has_title
             THEN /\ write = "ok"
                  /\ sc_pc' = "crashed"
                  /\ UNCHANGED <<json_file, sc_last_save, sc_faults>>
             ELSE LET saved == scrivi_insegnamento_senza_duplicati(
                                   json_file, CourseRecord(page), write)
                  IN /\ json_file' = saved.file
                     /\ sc_last_save' =
                           [called |-> TRUE, prior |-> json_file,
                            record |-> page, write |-> write,
                            raised |-> saved.raised]
                     /\ sc_pc' = IF saved.raised THEN "crashed"
                                 ELSE "ready"
                     /\ sc_faults' = IF write = "ok" THEN sc_faults
                                     ELSE sc_faults + 1
    /\ UNCHANGED <<sc_prog, tentativo, sc_call, stats,
                   insegnamenti_salvati, scorerVars, matchVars, batchVars,
                   namesVars, downloadVars, weightVars>>

NextScraper ==
    \/ StartSyllabus
    \/ RequestSucceeds
    \/ RequestFails
    \/ RequestRaisesOther
    \/ FinishSyllabus
    \/ UnimibSyllabus

SpecScraper == InitScraper /\ [][NextScraper]_vars

\* What the call of _safe_request under way has added to the stats
CallErroriHttp == stats.errori_http - sc_call.before.errori_http
CallErroriParsing == stats.errori_parsing - sc_call.before.errori_parsing
CallLinkFalliti == stats.link_falliti - sc_call.before.link_falliti

InSafeRequest ==
    sc_prog \in {"ClaudeV2", "Claude"} /\ sc_pc \in {"requesting", "fetched"}

\* C28: a call of _safe_request issues at most retry_attempts GETs and
\* sleeps only between two attempts; it returns the parsed page on the
\* first success, adding no failed link; when every attempt fails with a
\* request error it returns None after adding exactly one entry to
\* link_falliti and exactly retry_attempts to errori_http; an exception
\* that is no request error ends the attempts at once, with one
\* link_falliti entry and no retry.
C28_BoundedRetry ==
    InSafeRequest =>
        /\ sc_call.gets <= retry_attempts
        /\ sc_call.sleeps
             = CallErroriHttp
               - (IF CallErroriHttp = retry_attempts THEN 1 ELSE 0)
        /\ sc_pc = "requesting" =>
              /\ sc_call.gets < retry_attempts
              /\ sc_call.gets = CallErroriHttp
              /\ sc_call.sleeps = sc_call.gets
              /\ CallErroriParsing = 0
              /\ CallLinkFalliti = 0
        /\ (sc_pc = "fetched" /\ sc_call.returned = "soup") =>
              /\ sc_call.gets = CallErroriHttp + 1
              /\ sc_call.sleeps = sc_call.gets - 1
              /\ CallErroriParsing = 0
              /\ CallLinkFalliti = 0
        /\ (sc_pc = "fetched" /\ sc_call.returned # "soup") =>
              /\ sc_call.returned = "None"
              /\ CallLinkFalliti = 1
              /\ \/ /\ CallErroriParsing = 0
                    /\ CallErroriHttp = retry_attempts
                    /\ sc_call.gets = retry_attempts
                    /\ sc_call.sleeps = retry_attempts - 1
                 \/ /\ CallErroriParsing = 1
                    /\ sc_call.gets = CallErroriHttp + 1
                    /\ sc_call.sleeps = CallErroriHttp

\* Every attempt of a call has failed with a request error
C28_Witness ==
    /\ sc_pc = "fetched"
    /\ sc_call.returned = "None"
    /\ sc_call.gets = retry_attempts
    /\ sc_call.sleeps = retry_attempts - 1
    /\ CallErroriHttp = retry_attempts
    /\ CallLinkFalliti = 1
    /\ stats.link_falliti = 2

\* C21: when the existing output file does not hold valid JSON, saving a
\* record treats the prior content as an empty collection: nothing is
\* raised and the file is left as a valid JSON array that holds exactly
\* the new record.
C21_MalformedFileTolerated ==
    (/\ sc_last_save.called
     /\ sc_last_save.prior.kind \in {"not_json", "undecodable"}
     /\ sc_last_save.write = "ok")
        => /\ ~ sc_last_save.raised
           /\ json_file = [kind |-> "array",
                           dati |-> <<CourseRecord(sc_last_save.record)>>]

\* The (titolo, corso_di_laurea) keys of the records in the output file
FileKeys ==
    {<<json_file.dati[k].titolo, json_file.dati[k].corso_di_laurea>> :
        k \in DOMAIN json_file.dati}

\* C29: between the calls of estrai_info_syllabus of one run of ClaudeV2,
\* the keys of the records in the output file are exactly
\* insegnamenti_salvati, every key is in exactly one record, and the
\* number of records is stats.insegnamenti_estratti.
C29_FileMatchesSavedSet ==
    (sc_prog = "ClaudeV2" /\ sc_pc = "ready") =>
        /\ json_file.kind \in {"absent", "array"}
        /\ FileKeys = insegnamenti_salvati
        /\ Cardinality(FileKeys) = Len(json_file.dati)
        /\ Len(json_file.dati) = stats.insegnamenti_estratti

=============================================================================
